---- MODULE Spec2Model ----
(***************************************************************************)
(* A model of the yarxbi BASIC interpreter's execution engine:             *)
(* src/src/evaluator.rs (evaluate, evaluate_com, parse_expression,         *)
(* parse_and_eval_expression), src/src/value.rs (the Value operators) and  *)
(* src/src/token.rs (the token classification tables).                     *)
(*                                                                         *)
(* A token is a record [t, n, s]: t the Token variant, n the payload of    *)
(* Number, s the payload of Variable / BString.  A token's column          *)
(* position (TokenAndPos.0) is its index in the line's token sequence.     *)
(* A value is a record [k, n, s, b]: k the Value variant.  Numbers are     *)
(* the integers among the f64; a division that is not exact yields the     *)
(* one abstract value NonInt.                                              *)
(***************************************************************************)
EXTENDS Integers, Sequences, FiniteSets, TLC

VARIABLES
    code_lines,     \* evaluate's argument: the lines in textual order
    stdin,          \* the lines standard input still holds
    variables,      \* Context.variables
    floops,         \* Context.floops
    wloops,         \* Context.wloops
    line_index,     \* evaluate's line_index (0-based)
    line_has_goto,  \* evaluate's line_has_goto
    status,         \* "running", "ok" (Ok), "err" (Err) or "panic"
    err,            \* the Err triple (line number, column, message)
    output,         \* what PRINT has written to standard output, in order,
                    \* each text with the number of the line that wrote it
    trace           \* the line_index of every line fetched so far, in order

vars == <<code_lines, stdin, variables, floops, wloops, line_index,
          line_has_goto, status, err, output, trace>>

----------------------------------------------------------------------------
(* Bounds of the model. *)

\* the run is followed for at most MaxSteps fetched lines
MaxSteps == 10

\* the largest number literal the generated expressions use
MaxNum == 3

----------------------------------------------------------------------------
(* Tokens: src/src/token.rs *)

Tok(t, n, s) == [t |-> t, n |-> n, s |-> s]
Num(n) == Tok("Number", n, "")
Var(x) == Tok("Variable", 0, x)
Str(x) == Tok("BString", 0, x)
Kw(t) == Tok(t, 0, "")

ComparisonTokens ==
    {"Equals", "LessThan", "GreaterThan", "LessThanEqual",
     "GreaterThanEqual", "NotEqual"}

is_operator(tk) ==
    tk.t \in ComparisonTokens \cup
             {"Multiply", "Divide", "Minus", "Plus", "UMinus", "Bang"}

is_comparison_operator(tk) == tk.t \in ComparisonTokens

is_unary_operator(tk) == tk.t \in {"UMinus", "Bang"}

is_binary_operator(tk) == is_operator(tk) /\ ~is_unary_operator(tk)

is_value(tk) == tk.t \in {"Variable", "Number", "BString"}

operator_precedence(tk) ==
    IF tk.t \in {"UMinus", "Bang"} THEN 12
    ELSE IF tk.t \in {"Multiply", "Divide"} THEN 10
    ELSE IF tk.t \in {"Minus", "Plus"} THEN 8
    ELSE 4

operator_associavity(tk) ==
    IF tk.t \in {"UMinus", "Bang"} THEN "Right" ELSE "Left"

----------------------------------------------------------------------------
(* Values: src/src/value.rs *)

VNum(n) == [k |-> "Number", n |-> n, s |-> "", b |-> FALSE]
VStr(s) == [k |-> "String", n |-> 0, s |-> s, b |-> FALSE]
VBool(b) == [k |-> "Bool", n |-> 0, s |-> "", b |-> b]

\* every f64 that is not an integer (a fraction, an infinity, NaN)
NonInt == [k |-> "Number", n |-> 0, s |-> "non-integer", b |-> FALSE]

Abs(n) == IF n < 0 THEN -n ELSE n

\* Result<Value, String>: Ok(v), or Err (the message is not kept)
ROk(v) == [ok |-> TRUE, v |-> v]
RErr == [ok |-> FALSE, v |-> VBool(FALSE)]

\* f64::from_str on the texts the model uses; every other text fails to parse
ParsableText == {"0", "1", "2", "3", "5", "7", "8"}
F64FromStr(s) ==
    IF s \in ParsableText
    THEN [ok |-> TRUE, n |-> CHOOSE n \in 0..9 : ToString(n) = s]
    ELSE [ok |-> FALSE, n |-> 0]

\* str::trim on the lines the model feeds to standard input
Trim(s) ==
    IF s = " 7 " THEN "7"
    ELSE IF s = "5 " THEN "5"
    ELSE IF s = "  " THEN ""
    ELSE s

\* the lexicographic (byte) order of the texts the model compares
TextOrder == <<"", "0", "1", "2", "3", "5", "53", "7", "8", "abc", "x">>
TextRank(s) == CHOOSE i \in 1..Len(TextOrder) : TextOrder[i] = s

\* a Text operand parsed as a number beside a Number operand
Coerced(a, r) ==
    IF r.ok THEN [ok |-> TRUE, v |-> VNum(r.n)] ELSE [ok |-> FALSE, v |-> a]

\* the operands of the (Number, Number), (Number, String) and
\* (String, Number) arms of a binary operator, as two numbers
NumPairOf(a, b, ca, cb) ==
    IF a.k = "Number" /\ b.k = "Number" THEN [ok |-> TRUE, x |-> a, y |-> b]
    ELSE IF a.k = "Number" /\ b.k = "String" THEN [ok |-> cb.ok, x |-> a, y |-> cb.v]
    ELSE IF a.k = "String" /\ b.k = "Number" THEN [ok |-> ca.ok, x |-> ca.v, y |-> b]
    ELSE [ok |-> FALSE, x |-> a, y |-> b]

NumPair(a, b) ==
    NumPairOf(a, b, Coerced(a, F64FromStr(a.s)), Coerced(b, F64FromStr(b.s)))

IsNonInt(p) == p.x = NonInt \/ p.y = NonInt

\* Neg, lines 15-24
ValueNeg(a) ==
    IF a.k = "Number" THEN ROk(IF a = NonInt THEN NonInt ELSE VNum(-a.n))
    ELSE RErr

\* Not, lines 26-35
ValueNot(a) == IF a.k = "Bool" THEN ROk(VBool(~a.b)) ELSE RErr

\* a faulty variant of AddOf: a Text beside a Number is never parsed
AddOf_NoCoercion(a, b, p) ==
    IF a.k = "String" /\ b.k = "String" THEN ROk(VStr(a.s \o b.s))
    ELSE IF a.k = "Number" /\ b.k = "Number" THEN ROk(VNum(a.n + b.n))
    ELSE RErr

\* Add, lines 39-77
AddOf(a, b, p) ==
    IF a.k = "String" /\ b.k = "String" THEN ROk(VStr(a.s \o b.s))
    ELSE IF ~p.ok THEN RErr
    ELSE IF IsNonInt(p) THEN ROk(NonInt)
    ELSE ROk(VNum(p.x.n + p.y.n))

ValueAdd(a, b) == AddOf(a, b, NumPair(a, b))

\* Sub, lines 153-188
SubOf(p) ==
    IF ~p.ok THEN RErr
    ELSE IF IsNonInt(p) THEN ROk(NonInt)
    ELSE ROk(VNum(p.x.n - p.y.n))

ValueSub(a, b) == SubOf(NumPair(a, b))

\* Mul, lines 116-151
MulOf(p) ==
    IF ~p.ok THEN RErr
    ELSE IF IsNonInt(p) THEN ROk(NonInt)
    ELSE ROk(VNum(p.x.n * p.y.n))

ValueMul(a, b) == MulOf(NumPair(a, b))

\* Div, lines 79-114
DivOf(p) ==
    IF ~p.ok THEN RErr
    ELSE IF IsNonInt(p) \/ p.y.n = 0 THEN ROk(NonInt)
    ELSE IF p.x.n % Abs(p.y.n) = 0
        THEN ROk(VNum(CHOOSE q \in -Abs(p.x.n)..Abs(p.x.n) : q * p.y.n = p.x.n))
    ELSE ROk(NonInt)

ValueDiv(a, b) == DivOf(NumPair(a, b))

\* Result<bool, String> of a comparison, as a Bool value
NotOf(r) == IF r.ok THEN ROk(VBool(~r.v.b)) ELSE RErr

\* eq, lines 193-231
EqOf(a, b, p) ==
    IF a.k = "String" /\ b.k = "String" THEN ROk(VBool(a.s = b.s))
    ELSE IF a.k = "Bool" /\ b.k = "Bool" THEN ROk(VBool(a.b = b.b))
    ELSE IF ~p.ok THEN RErr
    ELSE ROk(VBool(~IsNonInt(p) /\ p.x.n = p.y.n))

ValueEq(a, b) == EqOf(a, b, NumPair(a, b))

\* neq, lines 233-235
ValueNeq(a, b) == NotOf(ValueEq(a, b))

\* a faulty variant of LtOf: false is less than true
LtOf_OrdersBooleans(a, b, p) ==
    IF a.k = "String" /\ b.k = "String"
        THEN ROk(VBool(TextRank(a.s) < TextRank(b.s)))
    ELSE IF a.k = "Bool" /\ b.k = "Bool" THEN ROk(VBool(~a.b /\ b.b))
    ELSE IF ~p.ok THEN RErr
    ELSE ROk(VBool(~IsNonInt(p) /\ p.x.n < p.y.n))

\* lt, lines 237-273
LtOf(a, b, p) ==
    IF a.k = "String" /\ b.k = "String"
        THEN ROk(VBool(TextRank(a.s) < TextRank(b.s)))
    ELSE IF a.k = "Bool" /\ b.k = "Bool" THEN ROk(VBool(a.b = b.b))
    ELSE IF ~p.ok THEN RErr
    ELSE ROk(VBool(~IsNonInt(p) /\ p.x.n < p.y.n))

ValueLt(a, b) == LtOf(a, b, NumPair(a, b))

\* gt, lines 275-311
GtOf(a, b, p) ==
    IF a.k = "String" /\ b.k = "String"
        THEN ROk(VBool(TextRank(a.s) > TextRank(b.s)))
    ELSE IF a.k = "Bool" /\ b.k = "Bool" THEN ROk(VBool(a.b /\ ~b.b))
    ELSE IF ~p.ok THEN RErr
    ELSE ROk(VBool(~IsNonInt(p) /\ p.x.n > p.y.n))

ValueGt(a, b) == GtOf(a, b, NumPair(a, b))

\* lteq, lines 313-315
ValueLteq(a, b) == NotOf(ValueGt(a, b))

\* gteq, lines 317-319
ValueGteq(a, b) == NotOf(ValueLt(a, b))

----------------------------------------------------------------------------
(* parse_expression: src/src/evaluator.rs 394-460 *)

Top(st) == st[Len(st)]
Pop(st) == SubSeq(st, 1, Len(st) - 1)

\* the test of lines 421-424: does the incoming operator pop the stack top
ShouldPop(op, top) ==
    \/ /\ operator_associavity(op) = "Left"
       /\ operator_precedence(op) <= operator_precedence(top)
    \/ /\ operator_associavity(op) = "Right"
       /\ operator_precedence(op) < operator_precedence(top)

\* lines 415-433: an operator token; the stack top is tested and popped once
PushOperator(ops, out, op) ==
    IF ops # <<>> /\ is_operator(Top(ops)) /\ ShouldPop(op, Top(ops))
    THEN [st |-> "ok", ops |-> Append(Pop(ops), op), out |-> Append(out, Top(ops))]
    ELSE [st |-> "ok", ops |-> Append(ops, op), out |-> out]

\* lines 437-443: a right parenthesis pops to the output until a left one
RECURSIVE PopToLParen(_, _)
PopToLParen(ops, out) ==
    IF ops = <<>> THEN [st |-> "err", ops |-> ops, out |-> out]
    ELSE IF Top(ops).t = "LParen" THEN [st |-> "ok", ops |-> Pop(ops), out |-> out]
    ELSE PopToLParen(Pop(ops), Append(out, Top(ops)))

\* lines 450-459: the rest of the operator stack goes to the output
RECURSIVE Drain(_, _, _)
Drain(ops, out, i) ==
    IF ops = <<>> THEN [st |-> "ok", q |-> out, i |-> i]
    ELSE IF Top(ops).t \in {"LParen", "RParen"} THEN [st |-> "err", q |-> <<>>, i |-> i]
    ELSE Drain(Pop(ops), Append(out, Top(ops)), i)

\* lines 411-447: one token taken from the cursor
ParseToken(tk, ops, out) ==
    IF is_value(tk) THEN [st |-> "ok", ops |-> ops, out |-> Append(out, tk)]
    ELSE IF is_operator(tk) THEN PushOperator(ops, out, tk)
    ELSE IF tk.t = "LParen" THEN [st |-> "ok", ops |-> Append(ops, tk), out |-> out]
    ELSE IF tk.t = "RParen" THEN PopToLParen(ops, out)
    ELSE [st |-> "panic", ops |-> ops, out |-> out]

\* the loop of lines 400-448 from cursor i (the next token is toks[i])
RECURSIVE ParseLoop(_, _, _, _)
ParseNext(toks, i, p) ==
    IF p.st = "ok" THEN ParseLoop(toks, i + 1, p.out, p.ops)
    ELSE [st |-> p.st, q |-> <<>>, i |-> i + 1]

ParseLoop(toks, i, out, ops) ==
    IF i > Len(toks) \/ toks[i].t \in {"Then", "To", "Step"}
    THEN Drain(ops, out, i)
    ELSE ParseNext(toks, i, ParseToken(toks[i], ops, out))

\* st is "ok" (Ok(q)), "err" (Err) or "panic" (unreachable!() of line 445);
\* i is where the cursor is left
parse_expression(toks, i) == ParseLoop(toks, i, <<>>, <<>>)

----------------------------------------------------------------------------
(* parse_and_eval_expression: src/src/evaluator.rs 462-564 *)

\* lines 490-495
ApplyUnary(tk, a) == IF tk.t = "UMinus" THEN ValueNeg(a) ELSE ValueNot(a)

\* lines 509-518
ApplyComparison(tk, a, b) ==
    CASE tk.t = "Equals" -> ValueEq(a, b)
      [] tk.t = "NotEqual" -> ValueNeq(a, b)
      [] tk.t = "LessThan" -> ValueLt(a, b)
      [] tk.t = "GreaterThan" -> ValueGt(a, b)
      [] tk.t = "LessThanEqual" -> ValueLteq(a, b)
      [] tk.t = "GreaterThanEqual" -> ValueGteq(a, b)

\* lines 535-542
ApplyBinary(tk, a, b) ==
    CASE tk.t = "Plus" -> ValueAdd(a, b)
      [] tk.t = "Minus" -> ValueSub(a, b)
      [] tk.t = "Multiply" -> ValueMul(a, b)
      [] tk.t = "Divide" -> ValueDiv(a, b)

\* the operand stack after an operator's result r replaced its operands
Pushed(rest, r) ==
    IF r.ok THEN [ok |-> TRUE, stack |-> Append(rest, r.v)]
    ELSE [ok |-> FALSE, stack |-> <<>>]

\* lines 471-551: one token of the postfix queue
EvalToken(tk, stack, binds) ==
    IF tk.t = "Number" THEN Pushed(stack, ROk(VNum(tk.n)))
    ELSE IF tk.t = "BString" THEN Pushed(stack, ROk(VStr(tk.s)))
    ELSE IF tk.t = "Variable"
        THEN IF tk.s \in DOMAIN binds THEN Pushed(stack, ROk(binds[tk.s]))
             ELSE Pushed(stack, RErr)
    ELSE IF is_unary_operator(tk)
        THEN IF stack = <<>> THEN Pushed(stack, RErr)
             ELSE Pushed(Pop(stack), ApplyUnary(tk, Top(stack)))
    ELSE IF is_comparison_operator(tk)
        THEN IF Len(stack) < 2 THEN Pushed(stack, RErr)
             ELSE Pushed(Pop(Pop(stack)),
                         ApplyComparison(tk, Top(Pop(stack)), Top(stack)))
    ELSE \* a binary operator: with fewer than two operands nothing is done
         IF Len(stack) < 2 THEN [ok |-> TRUE, stack |-> stack]
         ELSE Pushed(Pop(Pop(stack)), ApplyBinary(tk, Top(Pop(stack)), Top(stack)))

\* the loop of lines 470-559 over the postfix queue q from its element j
RECURSIVE EvalLoop(_, _, _, _)
EvalNext(q, j, r, binds) ==
    IF r.ok THEN EvalLoop(q, j + 1, r.stack, binds) ELSE RErr

EvalLoop(q, j, stack, binds) ==
    IF j > Len(q)
    THEN IF Len(stack) # 1 THEN RErr ELSE ROk(stack[1])
    ELSE EvalNext(q, j, EvalToken(q[j], stack, binds), binds)

\* the result of the expression: st is "ok" (Ok(v)) or "err" (Err)
Evaluated(r, i) == [st |-> IF r.ok THEN "ok" ELSE "err", v |-> r.v, i |-> i]

EvalParsed(p, binds) ==
    IF p.st = "ok" THEN Evaluated(EvalLoop(p.q, 1, <<>>, binds), p.i)
    ELSE [st |-> p.st, v |-> VBool(FALSE), i |-> p.i]

\* st is "ok", "err", or "panic" when parse_expression panics; i is where
\* the cursor is left
parse_and_eval_expression(toks, i, binds) ==
    EvalParsed(parse_expression(toks, i), binds)

----------------------------------------------------------------------------
(* evaluate: src/src/evaluator.rs 56-107 *)

\* the keys of line_map / lineno_to_code (a BTreeMap keeps one entry per key)
LineNumberSet(cl) == {cl[i].line_number : i \in 1..Len(cl)}

\* line 66: the keys of line_map in ascending order
RECURSIVE SortedSeq(_)
SortedSeq(S) ==
    IF S = {} THEN <<>>
    ELSE <<CHOOSE x \in S : \A y \in S : x <= y>>
         \o SortedSeq(S \ {CHOOSE x \in S : \A y \in S : x <= y})

\* a faulty variant of line_numbers: the numbers in the order supplied
line_numbers_AsSupplied == [k \in 1..Len(code_lines) |-> code_lines[k].line_number]

line_numbers == SortedSeq(LineNumberSet(code_lines))

\* line 67
num_lines == Cardinality(LineNumberSet(code_lines))

\* line 62: each line number is mapped to the index of the line in code_lines,
\* the order the lines were supplied in (a later duplicate overwrites)
LineMapIndex(cl, n) ==
    (CHOOSE i \in 1..Len(cl) :
        /\ cl[i].line_number = n
        /\ \A j \in 1..Len(cl) : cl[j].line_number = n => j <= i) - 1

line_map == [n \in LineNumberSet(code_lines) |-> LineMapIndex(code_lines, n)]

\* line 63
lineno_to_code ==
    [n \in LineNumberSet(code_lines) |->
        code_lines[LineMapIndex(code_lines, n) + 1].tokens]

\* lines 73-74: the line the loop fetches
CurNumber == line_numbers[line_index + 1]
CurTokens == lineno_to_code[CurNumber]

\* Option<&TokenAndPos> of token_iter.next() with the cursor at i
TokAt(toks, i) == IF i <= Len(toks) THEN toks[i] ELSE Kw("None")
\* the cursor after k calls of next() from i
After(toks, i, k) == IF i + k > Len(toks) + 1 THEN Len(toks) + 1 ELSE i + k

\* `number as u32`
AsU32(n) == IF n < 0 THEN 0 ELSE n

\* println!("{}", value)
Render(v) ==
    IF v.k = "String" THEN v.s
    ELSE IF v.k = "Bool" THEN (IF v.b THEN "true" ELSE "false")
    ELSE IF v = NonInt THEN "non-integer"
    ELSE ToString(v.n)

\* HashMap::insert
Insert(m, key, val) ==
    [x \in DOMAIN m \cup {key} |-> IF x = key THEN val ELSE m[x]]
\* HashMap::remove
Remove(m, key) == [x \in DOMAIN m \ {key} |-> m[x]]

\* lines 72-79: a line with tokens is fetched, its first token of these kinds
Fetch(kinds) ==
    /\ status = "running"
    /\ Len(trace) < MaxSteps
    /\ num_lines > 0
    /\ CurTokens # <<>>
    /\ CurTokens[1].t \in kinds
    /\ trace' = Append(trace, line_index)
    /\ code_lines' = code_lines

\* a faulty variant of Advance: the run ends only after the last line was
\* dispatched, whatever index the statement left
Advance_EndsAfterLastLine(has_goto, idx) ==
    /\ line_has_goto' = has_goto
    /\ err' = err
    /\ IF has_goto
       THEN line_index' = idx /\ status' = "running"
       ELSE /\ line_index' = idx + 1
            /\ status' = IF line_index + 1 = num_lines THEN "ok" ELSE "running"

\* lines 98-103 after a dispatch that left the flag at has_goto and the index
\* at idx
Advance(has_goto, idx) ==
    /\ line_has_goto' = has_goto
    /\ err' = err
    /\ IF has_goto
       THEN line_index' = idx /\ status' = "running"
       ELSE /\ line_index' = idx + 1
            /\ status' = IF idx + 1 = num_lines THEN "ok" ELSE "running"

\* the statement returned Ok: the context it leaves, then lines 98-103
Done(binds, fl, wl, has_goto, idx) ==
    /\ variables' = binds
    /\ floops' = fl
    /\ wloops' = wl
    /\ Advance(has_goto, idx)

\* err!(line_number, pos, msg) with the bindings and the flag as they then are
Fail(binds, has_goto, pos, msg) ==
    /\ status' = "err"
    /\ err' = [line |-> CurNumber, pos |-> pos, msg |-> msg]
    /\ variables' = binds
    /\ line_has_goto' = has_goto
    /\ UNCHANGED <<floops, wloops, line_index>>

\* unreachable!() of parse_expression: the process panics
Panic(binds) ==
    /\ status' = "panic"
    /\ variables' = binds
    /\ line_has_goto' = FALSE
    /\ UNCHANGED <<floops, wloops, line_index, err>>

\* line 73 with no line at all: the index is out of bounds
EvaluateNoLines ==
    /\ status = "running"
    /\ num_lines = 0
    /\ status' = "panic"
    /\ UNCHANGED <<code_lines, stdin, variables, floops, wloops, line_index,
                   line_has_goto, err, output, trace>>

\* line 78 false: a line with no tokens; line_has_goto keeps its old value
EmptyLine ==
    /\ status = "running"
    /\ Len(trace) < MaxSteps
    /\ num_lines > 0
    /\ CurTokens = <<>>
    /\ trace' = Append(trace, line_index)
    /\ Advance(line_has_goto, line_index)
    /\ UNCHANGED <<code_lines, stdin, variables, floops, wloops, output>>

----------------------------------------------------------------------------
(* evaluate_com: src/src/evaluator.rs 109-392 *)

\* line 122
RemStmt ==
    /\ Fetch({"Rem"})
    /\ Done(variables, floops, wloops, FALSE, line_index)
    /\ UNCHANGED <<stdin, output>>

\* a faulty variant of JumpTo: an undeclared target falls back to the nearest
\* declared line after it
JumpTo_Nearest(n, pos, msg) ==
    IF AsU32(n) \in DOMAIN line_map
    THEN Done(variables, floops, wloops, TRUE, line_map[AsU32(n)])
    ELSE IF \E m \in DOMAIN line_map : m > n
    THEN Done(variables, floops, wloops, TRUE,
              line_map[CHOOSE m \in DOMAIN line_map :
                  m > n /\ \A k \in DOMAIN line_map : k > n => m <= k])
    ELSE Fail(variables, TRUE, pos, msg)

\* lines 128-132 and 216-220: the jump to line n; the flag is already set
JumpTo(n, pos, msg) ==
    IF AsU32(n) \in DOMAIN line_map
    THEN Done(variables, floops, wloops, TRUE, line_map[AsU32(n)])
    ELSE Fail(variables, TRUE, pos, msg)

\* a faulty variant of GotoCom: the jump drops the loop records
GotoCom_ClearsLoops(tk) ==
    IF tk.t = "Number" /\ AsU32(tk.n) \in DOMAIN line_map
    THEN Done(variables, <<>>, <<>>, TRUE, line_map[AsU32(tk.n)])
    ELSE IF tk.t = "Number"
    THEN Fail(variables, TRUE, 2, "Invalid target line for GOTO")
    ELSE IF tk.t # "None"
    THEN Fail(variables, TRUE, 2, "GOTO must be followed by a valid line number")
    ELSE Fail(variables, TRUE, 1 + 4, "GOTO must be followed by a line number")

\* lines 124-139
GotoCom(tk) ==
    IF tk.t = "Number" THEN JumpTo(tk.n, 2, "Invalid target line for GOTO")
    ELSE IF tk.t # "None"
    THEN Fail(variables, TRUE, 2, "GOTO must be followed by a valid line number")
    ELSE Fail(variables, TRUE, 1 + 4, "GOTO must be followed by a line number")

GotoStmt ==
    /\ Fetch({"Goto"})
    /\ GotoCom(TokAt(CurTokens, 2))
    /\ UNCHANGED <<stdin, output>>

\* a faulty variant of LetCom: a variable keeps the type it was bound with
LetCom_KeepsType(t1, t2, r) ==
    IF r.st = "panic" THEN Panic(variables)
    ELSE IF t1.t = "Variable" /\ t2.t = "Equals" /\ r.st = "ok"
    THEN IF t1.s \in DOMAIN variables /\ variables[t1.s].k # r.v.k
         THEN Fail(variables, FALSE, 1, "Error in LET expression")
         ELSE Done(Insert(variables, t1.s, r.v), floops, wloops, FALSE, line_index)
    ELSE IF r.st = "err"
    THEN Fail(variables, FALSE, 1, "Error in LET expression")
    ELSE Fail(variables, FALSE, 1, "Invalid syntax for LET")

\* lines 141-164
LetCom(t1, t2, r) ==
    IF r.st = "panic" THEN Panic(variables)
    ELSE IF t1.t = "Variable" /\ t2.t = "Equals" /\ r.st = "ok"
    THEN Done(Insert(variables, t1.s, r.v), floops, wloops, FALSE, line_index)
    ELSE IF r.st = "err"
    THEN Fail(variables, FALSE, 1, "Error in LET expression")
    ELSE Fail(variables, FALSE, 1, "Invalid syntax for LET")

LetStmt ==
    /\ Fetch({"Let"})
    /\ LetCom(TokAt(CurTokens, 2), TokAt(CurTokens, 3),
              parse_and_eval_expression(CurTokens, After(CurTokens, 2, 2), variables))
    /\ UNCHANGED <<stdin, output>>

\* lines 166-175
PrintCom(r) ==
    IF r.st = "panic" THEN Panic(variables) /\ output' = output
    ELSE IF r.st = "ok"
    THEN /\ output' = Append(output, [line |-> CurNumber, text |-> Render(r.v)])
         /\ Done(variables, floops, wloops, FALSE, line_index)
    ELSE /\ output' = output
         /\ Fail(variables, FALSE, 1, "PRINT must be followed by valid expression")

PrintStmt ==
    /\ Fetch({"Print"})
    /\ PrintCom(parse_and_eval_expression(CurTokens, 2, variables))
    /\ UNCHANGED stdin

\* lines 180-186: read_line (nothing is read at end of input), then trim
ReadLine == IF stdin = <<>> THEN "" ELSE Trim(Head(stdin))
RestOfInput == IF stdin = <<>> THEN <<>> ELSE Tail(stdin)

\* a faulty variant of OrInsert: insert, which overwrites
OrInsert_Overwrites(m, key, val) == Insert(m, key, val)

\* lines 190-193: entry(v).or_insert(value)
OrInsert(m, key, val) == IF key \in DOMAIN m THEN m ELSE Insert(m, key, val)

\* lines 177-198
InputCom(tk) ==
    IF tk.t = "Variable"
    THEN /\ stdin' = RestOfInput
         /\ Done(OrInsert(variables, tk.s, VStr(ReadLine)), floops, wloops,
                 FALSE, line_index)
    ELSE /\ stdin' = stdin
         /\ Fail(variables, FALSE, 1 + 5, "INPUT must be followed by a variable name")

InputStmt ==
    /\ Fetch({"Input"})
    /\ InputCom(TokAt(CurTokens, 2))
    /\ output' = output

\* a faulty variant of IfCom: the target is resolved before the condition
\* is looked at
IfCom_ResolvesFirst(r, t1, t2) ==
    IF r.st = "panic" THEN Panic(variables)
    ELSE IF r.st = "ok" /\ r.v.k = "Bool" /\ t1.t = "Then" /\ t2.t = "Number"
    THEN IF AsU32(t2.n) \notin DOMAIN line_map
         THEN Fail(variables, FALSE, 1, "Invalid target line for IF")
         ELSE IF r.v.b
         THEN Done(variables, floops, wloops, TRUE, line_map[AsU32(t2.n)])
         ELSE Done(variables, floops, wloops, FALSE, line_index)
    ELSE Fail(variables, FALSE, 1, "Invalid syntax for IF")

\* lines 200-226
IfCom(r, t1, t2) ==
    IF r.st = "panic" THEN Panic(variables)
    ELSE IF r.st = "ok" /\ r.v.k = "Bool" /\ t1.t = "Then" /\ t2.t = "Number"
    THEN IF r.v.b
         THEN JumpTo(t2.n, 1, "Invalid target line for IF")
         ELSE Done(variables, floops, wloops, FALSE, line_index)
    ELSE Fail(variables, FALSE, 1, "Invalid syntax for IF")

IfParsed(r) == IfCom(r, TokAt(CurTokens, r.i), TokAt(CurTokens, r.i + 1))

IfStmt ==
    /\ Fetch({"If"})
    /\ IfParsed(parse_and_eval_expression(CurTokens, 2, variables))
    /\ UNCHANGED <<stdin, output>>

\* `*start < *end` and the tests of line 319 on f64
NumLess(a, b) == a # NonInt /\ b # NonInt /\ a.n < b.n

\* a faulty variant of ForStep: an entry test, a loop from a value to the
\* same value passes over its body line
ForStep_TestsAtEntry(x, binds, epos, start, end, t4, r3) ==
    IF t4.t = "Step" /\ r3.st = "panic" THEN Panic(binds)
    ELSE IF t4.t = "Step" /\ ~(r3.st = "ok" /\ r3.v.k = "Number")
    THEN Fail(binds, FALSE, 1, "Cannot parse FOR step")
    ELSE IF start = end /\ line_index + 2 < num_lines
    THEN Done(binds, floops, wloops, FALSE, line_index + 1)
    ELSE Done(binds,
              Insert(floops, x, [line_no |-> CurNumber, pos |-> epos,
                                 slide |-> NumLess(start, end),
                                 stes |-> t4.t = "Step"]),
              wloops, FALSE, line_index)

\* a faulty variant of ForStep: a variable that has a record keeps it
ForStep_KeepsRecord(x, binds, epos, start, end, t4, r3) ==
    IF t4.t = "Step" /\ r3.st = "panic" THEN Panic(binds)
    ELSE IF t4.t = "Step" /\ ~(r3.st = "ok" /\ r3.v.k = "Number")
    THEN Fail(binds, FALSE, 1, "Cannot parse FOR step")
    ELSE Done(binds,
              OrInsert(floops, x, [line_no |-> CurNumber, pos |-> epos,
                                   slide |-> NumLess(start, end),
                                   stes |-> t4.t = "Step"]),
              wloops, FALSE, line_index)

\* lines 253-269: the STEP clause, then the record of the loop
ForStep(x, binds, epos, start, end, t4, r3) ==
    IF t4.t = "Step" /\ r3.st = "panic" THEN Panic(binds)
    ELSE IF t4.t = "Step" /\ ~(r3.st = "ok" /\ r3.v.k = "Number")
    THEN Fail(binds, FALSE, 1, "Cannot parse FOR step")
    ELSE Done(binds,
              Insert(floops, x, [line_no |-> CurNumber, pos |-> epos,
                                 slide |-> NumLess(start, end),
                                 stes |-> t4.t = "Step"]),
              wloops, FALSE, line_index)

\* lines 245-273: TO and the end bound
ForEnd(x, binds, epos, start, t3, r2) ==
    IF r2.st = "panic" THEN Panic(binds)
    ELSE IF t3.t = "To" /\ r2.st = "ok" /\ r2.v.k = "Number"
    THEN ForStep(x, binds, epos, start, r2.v, TokAt(CurTokens, r2.i),
                 parse_and_eval_expression(CurTokens, After(CurTokens, r2.i, 1), binds))
    ELSE Fail(binds, FALSE, 1, "Cannot parse secondary FOR expression")

\* lines 241-247: the variable is bound to the start value
ForBound(x, binds, epos, start) ==
    ForEnd(x, binds, epos, start, TokAt(CurTokens, epos),
           parse_and_eval_expression(CurTokens, After(CurTokens, epos, 1), binds))

\* lines 228-278
ForCom(t1, t2, r1) ==
    IF r1.st = "panic" THEN Panic(variables)
    ELSE IF t1.t = "Variable" /\ t2.t = "Equals" /\ r1.st = "ok" /\ r1.v.k = "Number"
    THEN ForBound(t1.s, Insert(variables, t1.s, r1.v), r1.i, r1.v)
    ELSE Fail(variables, FALSE, 1, "Cannot parse FOR initialisation expression")

ForStmt ==
    /\ Fetch({"For"})
    /\ ForCom(TokAt(CurTokens, 2), TokAt(CurTokens, 3),
              parse_and_eval_expression(CurTokens, After(CurTokens, 2, 2), variables))
    /\ UNCHANGED <<stdin, output>>

\* a faulty variant of Continues: the loop goes on until the bound is hit,
\* from whichever side
Continues_UntilEqual(slide, next, end) ==
    NumLess(next, end) \/ NumLess(end, next)

\* line 319: the continuation test
Continues(slide, next, end) ==
    IF slide THEN NumLess(next, end) ELSE NumLess(end, next)

\* a faulty variant of NextJump: the variable is moved on also when the loop
\* ends
NextJump_AdvancesAtExit(x, floop, next, end) ==
    IF Continues(floop.slide, next, end)
    THEN Done(Insert(variables, x, next), floops, wloops, FALSE,
              line_map[floop.line_no])
    ELSE Done(Insert(variables, x, next), Remove(floops, x), wloops, FALSE,
              line_index)

\* a faulty variant of NextJump: continuing sets a jump to the FOR line
NextJump_SetsJump(x, floop, next, end) ==
    IF Continues(floop.slide, next, end)
    THEN Done(Insert(variables, x, next), floops, wloops, TRUE,
              line_map[floop.line_no])
    ELSE Done(variables, Remove(floops, x), wloops, FALSE, line_index)

\* lines 319-333; NEXT leaves line_has_goto false also when it continues
NextJump(x, floop, next, end) ==
    IF Continues(floop.slide, next, end)
    THEN Done(Insert(variables, x, next), floops, wloops, FALSE,
              line_map[floop.line_no])
    ELSE Done(variables, Remove(floops, x), wloops, FALSE, line_index)

\* a faulty variant of NextStep: with a STEP clause the increment is the
\* value of the STEP expression of the FOR line
NextStep_StepOfForLine(x, floop, end, rs) ==
    IF x \notin DOMAIN variables
    THEN Fail(variables, FALSE, 1, "Invalid variable expression")
    ELSE IF variables[x].k # "Number"
    THEN Fail(variables, FALSE, 1, "Cannot parse variable for jump")
    ELSE NextJump(x, floop,
                  ValueAdd(variables[x],
                           IF floop.stes
                           THEN parse_and_eval_expression(
                                    lineno_to_code[floop.line_no],
                                    Len(lineno_to_code[floop.line_no]),
                                    variables).v
                           ELSE IF floop.slide THEN VNum(1) ELSE VNum(-1)).v,
                  end)

\* lines 304-317: the step, then the variable's value plus the step
NextStep(x, floop, end, rs) ==
    IF floop.stes /\ rs.st = "panic" THEN Panic(variables)
    ELSE IF floop.stes /\ ~(rs.st = "ok" /\ rs.v.k = "Number")
    THEN Fail(variables, FALSE, 1, "Cannot parse step for FOR")
    ELSE IF x \notin DOMAIN variables
    THEN Fail(variables, FALSE, 1, "Invalid variable expression")
    ELSE IF variables[x].k # "Number"
    THEN Fail(variables, FALSE, 1, "Cannot parse variable for jump")
    ELSE NextJump(x, floop,
                  ValueAdd(variables[x],
                           IF floop.stes THEN rs.v
                           ELSE IF floop.slide THEN VNum(1) ELSE VNum(-1)).v,
                  end)

\* lines 290-302: the end bound, parsed again from the FOR line after TO
NextEnd(x, floop, re) ==
    IF re.st = "panic" THEN Panic(variables)
    ELSE IF ~(re.st = "ok" /\ re.v.k = "Number")
    THEN Fail(variables, FALSE, 1, "Cannot parse end for FOR")
    ELSE NextStep(x, floop, re.v,
                  parse_and_eval_expression(CurTokens, After(CurTokens, 2, 1), variables))

\* a faulty variant of NextCom: the end bound is read from the TO token on,
\* not from the token after it
NextCom_BoundFromTo(t1) ==
    IF t1.t = "Variable"
    THEN IF t1.s \notin DOMAIN floops
         THEN Fail(variables, FALSE, 1, "Cannot get FOR signature from hashmap")
         ELSE NextEnd(t1.s, floops[t1.s],
                      parse_and_eval_expression(lineno_to_code[floops[t1.s].line_no],
                                                floops[t1.s].pos, variables))
    ELSE IF t1.t = "None"
    THEN Fail(variables, FALSE, 1, "No jumping iterator passed")
    ELSE Fail(variables, FALSE, 1, "Invalid syntax for NEXT")

\* a faulty variant of NextCom: without a record for the variable NEXT does
\* nothing
NextCom_SkipsWithoutRecord(t1) ==
    IF t1.t = "Variable"
    THEN IF t1.s \notin DOMAIN floops
         THEN Done(variables, floops, wloops, FALSE, line_index)
         ELSE NextEnd(t1.s, floops[t1.s],
                      parse_and_eval_expression(lineno_to_code[floops[t1.s].line_no],
                                                floops[t1.s].pos + 1, variables))
    ELSE IF t1.t = "None"
    THEN Fail(variables, FALSE, 1, "No jumping iterator passed")
    ELSE Fail(variables, FALSE, 1, "Invalid syntax for NEXT")

\* lines 280-340
NextCom(t1) ==
    IF t1.t = "Variable"
    THEN IF t1.s \notin DOMAIN floops
         THEN Fail(variables, FALSE, 1, "Cannot get FOR signature from hashmap")
         ELSE NextEnd(t1.s, floops[t1.s],
                      parse_and_eval_expression(lineno_to_code[floops[t1.s].line_no],
                                                floops[t1.s].pos + 1, variables))
    ELSE IF t1.t = "None"
    THEN Fail(variables, FALSE, 1, "No jumping iterator passed")
    ELSE Fail(variables, FALSE, 1, "Invalid syntax for NEXT")

NextStmt ==
    /\ Fetch({"Next"})
    /\ NextCom(TokAt(CurTokens, 2))
    /\ UNCHANGED <<stdin, output>>

\* a faulty variant of WhileCom: a false condition pushes nothing
WhileCom_TestsAtEntry(r) ==
    IF r.st = "panic" THEN Panic(variables)
    ELSE IF r.st = "ok" /\ r.v.k = "Bool"
    THEN Done(variables, floops,
              IF r.v.b THEN Append(wloops, [line_no |-> CurNumber, pos |-> 1])
              ELSE wloops,
              FALSE, line_index)
    ELSE IF r.st = "err"
    THEN Fail(variables, FALSE, 1, "Invalid boolean expression")
    ELSE Fail(variables, FALSE, 1, "Invalid expression type (expected boolean)")

\* lines 342-352
WhileCom(r) ==
    IF r.st = "panic" THEN Panic(variables)
    ELSE IF r.st = "ok" /\ r.v.k = "Bool"
    THEN Done(variables, floops,
              Append(wloops, [line_no |-> CurNumber, pos |-> 1]),
              FALSE, line_index)
    ELSE IF r.st = "err"
    THEN Fail(variables, FALSE, 1, "Invalid boolean expression")
    ELSE Fail(variables, FALSE, 1, "Invalid expression type (expected boolean)")

WhileStmt ==
    /\ Fetch({"While"})
    /\ WhileCom(parse_and_eval_expression(CurTokens, 2, variables))
    /\ UNCHANGED <<stdin, output>>

\* a faulty variant of WendCom: a true condition sets a jump to the home line
WendCom_SetsJump(wloop, r) ==
    IF r.st = "panic" THEN Panic(variables)
    ELSE IF r.st = "ok" /\ r.v.k = "Bool"
    THEN IF r.v.b
         THEN Done(variables, floops, wloops, TRUE, line_map[wloop.line_no])
         ELSE Done(variables, floops, Pop(wloops), FALSE, line_index)
    ELSE IF r.st = "err"
    THEN Fail(variables, FALSE, 1, "Invalid boolean expression")
    ELSE Fail(variables, FALSE, 1, "Invalid expression type (expected boolean)")

\* lines 367-385; WEND leaves line_has_goto false also when it continues
WendCom(wloop, r) ==
    IF r.st = "panic" THEN Panic(variables)
    ELSE IF r.st = "ok" /\ r.v.k = "Bool"
    THEN IF r.v.b
         THEN Done(variables, floops, wloops, FALSE, line_map[wloop.line_no])
         ELSE Done(variables, floops, Pop(wloops), FALSE, line_index)
    ELSE IF r.st = "err"
    THEN Fail(variables, FALSE, 1, "Invalid boolean expression")
    ELSE Fail(variables, FALSE, 1, "Invalid expression type (expected boolean)")

\* lines 354-386
WendStmt ==
    /\ Fetch({"Wend"})
    /\ IF wloops = <<>>
       THEN Fail(variables, FALSE, 1, "Cannot find last WHILE loop")
       ELSE WendCom(Top(wloops),
                    parse_and_eval_expression(lineno_to_code[Top(wloops).line_no],
                                              2, variables))
    /\ UNCHANGED <<stdin, output>>

\* the variants of Token that evaluate_com has an arm for
StatementKinds ==
    {"Rem", "Goto", "Let", "Print", "Input", "If", "For", "Next", "While", "Wend"}

\* every other variant of Token
OtherKinds ==
    {"Comment", "Variable", "Number", "BString", "LParen", "RParen",
     "Multiply", "Divide", "Minus", "Plus", "UMinus", "Bang",
     "Step", "Then", "To"} \cup ComparisonTokens

\* line 388
InvalidStmt ==
    /\ Fetch(OtherKinds)
    /\ Fail(variables, FALSE, 1, "Invalid syntax")
    /\ UNCHANGED <<stdin, output>>

----------------------------------------------------------------------------
(* The programs evaluate is run on.  A program is written in ascending     *)
(* line-number order and handed to evaluate in some textual order, as      *)
(* src/src/main.rs 23-37 pushes the lines in the order of the file.        *)

Line(n, toks) == [line_number |-> n, tokens |-> toks]

\* lines numbered 10, 20, ... holding the statements of stmts in this order
Numbered(stmts) == [i \in 1..Len(stmts) |-> Line(10 * i, stmts[i])]

GotoLine(n) == <<Kw("Goto"), Num(n)>>
IfLine(a, op, b, n) == <<Kw("If"), a, Kw(op), b, Kw("Then"), Num(n)>>
LetLine(x, e) == <<Kw("Let"), Var(x), Kw("Equals")>> \o e
PrintLine(e) == <<Kw("Print")>> \o e
InputLine(x) == <<Kw("Input"), Var(x)>>
ForLine(x, a, b) == <<Kw("For"), Var(x), Kw("Equals")>> \o a \o <<Kw("To")>> \o b
NextLine(x) == <<Kw("Next"), Var(x)>>
WhileLine(e) == <<Kw("While")>> \o e
WendLine == <<Kw("Wend")>>
RemLine == <<Kw("Rem"), Tok("Comment", 0, "note")>>

\* three lines, each any of these statements: jumps to declared and to
\* undeclared lines, straight-line statements, lines without tokens
JumpStatements ==
    { <<>>, RemLine,
      LetLine("x", <<Num(1)>>),
      PrintLine(<<Var("x")>>),
      PrintLine(<<Str("abc")>>),
      GotoLine(10), GotoLine(30), GotoLine(40),
      IfLine(Var("x"), "Equals", Num(1), 30),
      IfLine(Num(1), "LessThan", Num(2), 15) }

JumpPrograms ==
    {Numbered(<<a, b, c>>) : a \in JumpStatements, b \in JumpStatements,
                             c \in JumpStatements}

\* three lines that read and bind variables
InputStatements ==
    { InputLine("x"), InputLine("y"),
      LetLine("x", <<Num(1)>>),
      PrintLine(<<Var("x")>>),
      <<Kw("Input"), Num(1)>> }

InputPrograms ==
    {Numbered(<<a, b, c>>) : a \in InputStatements, b \in InputStatements,
                             c \in InputStatements}

\* a FOR loop without STEP over literal bounds, one body line, a line after
ForBodies ==
    { PrintLine(<<Var("i")>>),
      LetLine("n", <<Var("i"), Kw("Plus"), Num(1)>>),
      RemLine,
      GotoLine(40),
      <<>> }

ForPrograms ==
    {Numbered(<<ForLine("i", <<Num(a)>>, <<Num(b)>>), body, NextLine("i"),
                PrintLine(<<Var("i")>>)>>) :
        a \in 0..MaxNum, b \in 0..MaxNum, body \in ForBodies}

\* a WHILE loop over a variable the body may change
WhileConds ==
    { <<Var("x"), Kw("LessThan"), Num(2)>>,
      <<Num(1), Kw("Equals"), Num(2)>>,
      <<Var("x")>> }

WhileBodies ==
    { LetLine("x", <<Var("x"), Kw("Plus"), Num(1)>>),
      PrintLine(<<Var("x")>>),
      GotoLine(50) }

WhilePrograms ==
    {Numbered(<<LetLine("x", <<Num(c)>>), WhileLine(cond), body, WendLine,
                PrintLine(<<Var("x")>>)>>) :
        c \in 0..MaxNum, cond \in WhileConds, body \in WhileBodies}

\* statements evaluate_com rejects or has no arm for
OddPrograms ==
    { <<>>,
      Numbered(<<LetLine("x", <<Num(1)>>), <<Kw("Then")>>>>),
      Numbered(<<WendLine>>),
      Numbered(<<NextLine("i")>>) }

\* a statement whose expression holds a statement keyword
KeywordPrograms ==
    { Numbered(<<PrintLine(<<Kw("Goto")>>), PrintLine(<<Str("abc")>>)>>),
      Numbered(<<LetLine("x", <<Num(1), Kw("Plus"), Kw("Let")>>)>>) }

\* an IF over a variable, its target declared or not
IfPrograms ==
    {Numbered(<<LetLine("x", <<Num(c)>>),
                IfLine(Var("x"), "Equals", Num(1), n),
                PrintLine(<<Var("x")>>)>>) :
        c \in 0..MaxNum, n \in {10, 15, 30}}

ForStepLine(x, a, b, s) == ForLine(x, a, b) \o <<Kw("Step")>> \o s
NextStepLine(x, e) == NextLine(x) \o e

\* a FOR loop whose bound is a variable the body may assign, with and
\* without a STEP clause, and a NEXT with and without an expression
BoundForLines(a) ==
    { ForLine("i", <<Num(a)>>, <<Var("n")>>),
      ForStepLine("i", <<Num(a)>>, <<Var("n")>>, <<Num(2)>>) }

BoundBodies ==
    { RemLine,
      LetLine("n", <<Num(0)>>),
      LetLine("n", <<Var("n"), Kw("Plus"), Num(1)>>) }

BoundNextLines ==
    { NextLine("i"),
      NextStepLine("i", <<Num(1)>>),
      NextStepLine("i", <<Kw("UMinus"), Num(1)>>) }

BoundPrograms ==
    {Numbered(<<LetLine("n", <<Num(c)>>), for, body, next,
                PrintLine(<<Var("i")>>)>>) :
        c \in 0..MaxNum, for \in UNION {BoundForLines(a) : a \in 0..MaxNum},
        body \in BoundBodies, next \in BoundNextLines}

\* two WHILE loops, one inside the other, over one variable
NestedConds ==
    { <<Var("x"), Kw("LessThan"), Num(1)>>,
      <<Var("x"), Kw("LessThan"), Num(2)>> }

NestedPrograms ==
    {Numbered(<<LetLine("x", <<Num(c)>>), WhileLine(outer), WhileLine(inner),
                LetLine("x", <<Var("x"), Kw("Plus"), Num(1)>>),
                WendLine, WendLine, PrintLine(<<Var("x")>>)>>) :
        c \in 0..MaxNum, outer \in NestedConds, inner \in NestedConds}

\* two FOR loops, one inside the other: the inner one over i, the outer one
\* over i as well or over j
InnerForLines ==
    {ForLine("i", <<Num(a)>>, <<Num(b)>>) : a \in 0..MaxNum, b \in {0, 2}}
    \cup {ForStepLine("i", <<Num(a)>>, <<Num(2)>>, <<Num(1)>>) : a \in 0..MaxNum}

SameVarPrograms ==
    {Numbered(<<ForLine(v, <<Num(0)>>, <<Num(2)>>), inner,
                PrintLine(<<Var("i")>>), NextLine("i"), NextLine(v)>>) :
        v \in {"i", "j"}, inner \in InnerForLines}

\* a WHILE loop whose body jumps past its WEND, to a second WEND
StaleJumps ==
    { GotoLine(50), IfLine(Var("x"), "LessThan", Num(1), 50) }

StalePrograms ==
    {Numbered(<<LetLine("x", <<Num(c)>>),
                WhileLine(<<Var("x"), Kw("LessThan"), Num(2)>>),
                jump, WendLine,
                LetLine("x", <<Var("x"), Kw("Plus"), Num(1)>>),
                WendLine>>) :
        c \in 0..MaxNum, jump \in StaleJumps}

\* a variable bound twice, to a Number, a Text or a Boolean each time, or
\* to its own value plus one, which fails unless it is a Number
TypeValues ==
    { <<Num(1)>>, <<Str("abc")>>, <<Num(1), Kw("Equals"), Num(1)>>,
      <<Var("x"), Kw("Plus"), Num(1)>> }

TypePrograms ==
    {Numbered(<<LetLine("x", a), LetLine("x", b), PrintLine(<<Var("x")>>)>>) :
        a \in TypeValues, b \in TypeValues}

\* a WHILE loop of three lines, which are supplied in every order
ShortWhilePrograms ==
    { Numbered(<<LetLine("x", <<Num(0)>>),
                 WhileLine(<<Var("x"), Kw("LessThan"), Num(1)>>),
                 WendLine>>) }

Programs ==
    JumpPrograms \cup InputPrograms \cup ForPrograms \cup WhilePrograms
        \cup OddPrograms \cup KeywordPrograms \cup IfPrograms
        \cup BoundPrograms \cup NestedPrograms \cup SameVarPrograms
        \cup StalePrograms \cup TypePrograms \cup ShortWhilePrograms

\* the textual orders a program of n lines is supplied in: every order for
\* up to three lines; beyond, the ascending and the descending order, the
\* two rotations and the first two lines exchanged
Orders(n) ==
    {f \in [1..n -> 1..n] : \A i, j \in 1..n : f[i] = f[j] => i = j}

TextOrders(n) ==
    IF n <= 3 THEN Orders(n)
    ELSE { [i \in 1..n |-> i],
           [i \in 1..n |-> n + 1 - i],
           [i \in 1..n |-> (i % n) + 1],
           [i \in 1..n |-> ((i + n - 2) % n) + 1],
           [i \in 1..n |-> IF i = 1 THEN 2 ELSE IF i = 2 THEN 1 ELSE i] }

Reorder(prog, f) == [i \in 1..Len(prog) |-> prog[f[i]]]

HasInput(prog) ==
    \E i \in 1..Len(prog) : prog[i].tokens # <<>> /\ prog[i].tokens[1].t = "Input"

\* what standard input holds
Inputs(prog) ==
    IF HasInput(prog) THEN { <<>>, <<" 7 ", "abc", "5 ">> } ELSE { <<>> }

\* lines 57-70
InitRun(prog, f, in) ==
    /\ code_lines = Reorder(prog, f)
    /\ stdin = in
    /\ variables = <<>>
    /\ floops = <<>>
    /\ wloops = <<>>
    /\ line_index = 0
    /\ line_has_goto = FALSE
    /\ status = "running"
    /\ err = [line |-> 0, pos |-> 0, msg |-> ""]
    /\ output = <<>>
    /\ trace = <<>>

Init ==
    \E prog \in Programs : \E f \in TextOrders(Len(prog)) : \E in \in Inputs(prog) :
        InitRun(prog, f, in)

Next ==
    \/ EvaluateNoLines
    \/ EmptyLine
    \/ RemStmt
    \/ GotoStmt
    \/ LetStmt
    \/ PrintStmt
    \/ InputStmt
    \/ IfStmt
    \/ ForStmt
    \/ NextStmt
    \/ WhileStmt
    \/ WendStmt
    \/ InvalidStmt

Spec == Init /\ [][Next]_vars

\* the loop of evaluate runs until it returns
FairSpec == Spec /\ WF_vars(Next)

----------------------------------------------------------------------------
(* The runs of 10 LET r = <expression> / 20 PRINT r over infix expressions *)
(* of literals: what parse_expression and parse_and_eval_expression make   *)
(* of operators in a row, of parentheses and of the unary minus.           *)

Literals == {Num(n) : n \in 1..MaxNum}
ArithmeticTokens == {"Plus", "Minus", "Multiply", "Divide"}
ChainTokens == {"Plus", "Minus", "Multiply"}

\* a op b op c
TwoOperators ==
    {<<a, Kw(o1), b, Kw(o2), c>> :
        a \in Literals, b \in Literals, c \in Literals,
        o1 \in ArithmeticTokens \cup {"LessThan", "Equals"},
        o2 \in ArithmeticTokens \cup {"LessThan", "Equals"}}

\* a op b op c op d
ThreeOperators ==
    {<<x[1], Kw(o[1]), x[2], Kw(o[2]), x[3], Kw(o[3]), x[4]>> :
        x \in [1..4 -> Literals], o \in [1..3 -> ChainTokens]}

\* (a op b) op c and a op (b op c)
Parenthesised ==
    {<<Kw("LParen"), a, Kw(o1), b, Kw("RParen"), Kw(o2), c>> :
        a \in Literals, b \in Literals, c \in Literals,
        o1 \in ArithmeticTokens, o2 \in ArithmeticTokens}
    \cup
    {<<a, Kw(o1), Kw("LParen"), b, Kw(o2), c, Kw("RParen")>> :
        a \in Literals, b \in Literals, c \in Literals,
        o1 \in ArithmeticTokens, o2 \in ArithmeticTokens}

\* -a op b, a op -b, --a op b, -(a op b), a op -b op c
WithUnaryMinus ==
    {<<Kw("UMinus"), a, Kw(o), b>> : a \in Literals, b \in Literals, o \in ChainTokens}
    \cup
    {<<a, Kw(o), Kw("UMinus"), b>> : a \in Literals, b \in Literals, o \in ChainTokens}
    \cup
    {<<Kw("UMinus"), Kw("UMinus"), a, Kw(o), b>> :
        a \in Literals, b \in Literals, o \in ChainTokens}
    \cup
    {<<Kw("UMinus"), Kw("LParen"), a, Kw(o), b, Kw("RParen")>> :
        a \in Literals, b \in Literals, o \in ChainTokens}
    \cup
    {<<a, Kw(o1), Kw("UMinus"), b, Kw(o2), c>> :
        a \in Literals, b \in Literals, c \in Literals,
        o1 \in ChainTokens, o2 \in ChainTokens}

Expressions == TwoOperators \cup ThreeOperators \cup Parenthesised \cup WithUnaryMinus

\* a + b over Numbers and Texts, some of which parse as numbers
AdditionOperands == Literals \cup {Str("5"), Str("abc")}
Additions ==
    {<<a, Kw("Plus"), b>> : a \in AdditionOperands, b \in AdditionOperands}

\* an operator that lacks an operand: a op, op a, and a unary operator alone
MissingOperands ==
    {<<a, Kw(o)>> :
        a \in Literals, o \in ArithmeticTokens \cup {"LessThan", "Equals"}}
    \cup
    {<<Kw(o), a>> :
        a \in Literals, o \in {"Plus", "Multiply", "Divide", "LessThan", "Equals"}}
    \cup
    {<<Kw("UMinus")>>, <<Kw("Bang")>>}

\* a < b, a > b, a <= b and a >= b over Numbers, Texts and Booleans; a
\* Boolean operand is written (1 = 1) or (1 = 2)
ComparisonOperands ==
    {<<a>> : a \in Literals \cup {Str("2"), Str("abc")}}
    \cup {<<Kw("LParen"), Num(1), Kw("Equals"), Num(c), Kw("RParen")>> : c \in 1..2}

Comparisons ==
    {a \o <<Kw(o)>> \o b :
        a \in ComparisonOperands, b \in ComparisonOperands,
        o \in {"LessThan", "GreaterThan", "LessThanEqual", "GreaterThanEqual"}}

ExprProgram(e) == Numbered(<<LetLine("r", e), PrintLine(<<Var("r")>>)>>)

ExprInit == \E e \in Expressions \cup Additions \cup MissingOperands \cup Comparisons : InitRun(ExprProgram(e), [k \in 1..2 |-> k], <<>>)

ExprNext == LetStmt \/ PrintStmt

ExprSpec == ExprInit /\ [][ExprNext]_vars

----------------------------------------------------------------------------
(* What the properties below speak of. *)

\* the loop of evaluate is about to fetch a line
Running == status = "running" /\ num_lines > 0 /\ Len(trace) < MaxSteps

\* the line about to be fetched starts with this token
CurIs(kind) == Running /\ CurTokens # <<>> /\ CurTokens[1].t = kind

\* this step fetched and dispatched a line
Dispatch == trace' # trace

\* the tokens of the k-th line fetched
StmtAt(k) == lineno_to_code[line_numbers[trace[k] + 1]]

\* the first token of the line fetched last
LastKind ==
    IF trace = <<>> \/ StmtAt(Len(trace)) = <<>> THEN "None"
    ELSE StmtAt(Len(trace))[1].t

\* the line numbers in ascending order, and the lines in that order
Ascending == SortedSeq(LineNumberSet(code_lines))
SortedProgram == [k \in 1..Len(Ascending) |-> lineno_to_code[Ascending[k]]]

\* the lines were supplied in ascending order
SuppliedAscending ==
    \A k \in 1..Len(code_lines) : code_lines[k].line_number = Ascending[k]

\* the target of the jump the line about to be fetched makes: of GOTO n, and
\* of IF expr THEN n when expr is true
IfTargets(r) ==
    IF /\ r.st = "ok" /\ r.v = VBool(TRUE)
       /\ TokAt(CurTokens, r.i).t = "Then"
       /\ TokAt(CurTokens, r.i + 1).t = "Number"
    THEN {TokAt(CurTokens, r.i + 1).n}
    ELSE {}

JumpTargets ==
    IF CurIs("Goto") /\ TokAt(CurTokens, 2).t = "Number"
    THEN {TokAt(CurTokens, 2).n}
    ELSE IF CurIs("If")
    THEN IfTargets(parse_and_eval_expression(CurTokens, 2, variables))
    ELSE {}

Declared(n) == n \in LineNumberSet(code_lines)

----------------------------------------------------------------------------
(* C1: GOTO n, and IF with a true condition THEN n, with n a declared line *)
(* number, make the next line fetched the one numbered n, in whatever      *)
(* textual order the lines were supplied.                                  *)
C1_JumpReachesLine ==
    [][\A n \in JumpTargets :
          (Declared(n) /\ Dispatch) =>
              (status' = "running" /\ line_numbers[line_index' + 1] = n)]_vars

\* the same for the programs supplied in ascending order only
C1_JumpReachesLineWhenAscending ==
    [][\A n \in JumpTargets :
          (Declared(n) /\ Dispatch /\ SuppliedAscending) =>
              (status' = "running" /\ line_numbers[line_index' + 1] = n)]_vars

----------------------------------------------------------------------------
(* C2: a program of REM, LET, PRINT, INPUT and empty lines only, supplied  *)
(* in any textual order, has its lines fetched once each in ascending      *)
(* line-number order, the PRINT output written in that order, and the run  *)
(* goes on until every line was fetched and then returns Ok; it stops      *)
(* earlier only with the error of a LET, PRINT or INPUT that itself fails. *)
StraightLine ==
    /\ code_lines # <<>>
    /\ \A k \in 1..Len(code_lines) :
          \/ code_lines[k].tokens = <<>>
          \/ code_lines[k].tokens[1].t \in {"Rem", "Let", "Print", "Input"}

\* the numbers of the lines fetched, in the order they were fetched
Fetched == [k \in 1..Len(trace) |-> line_numbers[trace[k] + 1]]

IsPrintLine(n) == lineno_to_code[n] # <<>> /\ lineno_to_code[n][1].t = "Print"

\* the lines whose statement returned Ok
Completed == IF status = "err" THEN SubSeq(Fetched, 1, Len(Fetched) - 1) ELSE Fetched

OwnErrors ==
    {"Error in LET expression", "Invalid syntax for LET",
     "PRINT must be followed by valid expression",
     "INPUT must be followed by a variable name"}

C2_StraightLineInOrder ==
    StraightLine =>
        /\ Fetched = SubSeq(Ascending, 1, Len(trace))
        /\ [k \in 1..Len(output) |-> output[k].line] = SelectSeq(Completed, IsPrintLine)
        /\ status \in {"running", "ok", "err"}
        /\ status = "running" =>
              /\ Len(trace) < Len(code_lines)
              /\ ENABLED (EmptyLine \/ Fetch({"Rem", "Let", "Print", "Input"}))
        /\ status = "ok" => Len(trace) = Len(code_lines)
        /\ status = "err" => (err.msg \in OwnErrors /\ err.line = Fetched[Len(trace)])

\* no statement keyword stands inside an expression, so parse_expression
\* never reaches its unreachable!() arm
NoKeywordOperand ==
    \A k \in 1..Len(code_lines) :
        \A j \in 2..Len(code_lines[k].tokens) :
            code_lines[k].tokens[j].t \notin StatementKinds

\* the same for the programs in which no expression holds a statement keyword
C2_StraightLineInOrderWhenParsable ==
    NoKeywordOperand => C2_StraightLineInOrder

\* all three lines of a program supplied in descending order were fetched,
\* two of them PRINTs
C2_Witness ==
    /\ StraightLine
    /\ status = "ok"
    /\ Len(code_lines) = 3
    /\ code_lines[1].line_number = 30 /\ code_lines[3].line_number = 10
    /\ Len(output) = 2
    /\ output[1].text # output[2].text

----------------------------------------------------------------------------
(* C3: a line without tokens does nothing and moves the program counter on *)
(* by one, whatever was dispatched before it.                              *)
C3_EmptyLineAdvances ==
    [][(Running /\ CurTokens = <<>> /\ Dispatch) =>
          /\ line_index' = line_index + 1
          /\ status' = IF line_index + 1 = num_lines THEN "ok" ELSE "running"
          /\ UNCHANGED <<variables, floops, wloops, output, stdin>>]_vars

----------------------------------------------------------------------------
(* C4: FOR v = a TO b without STEP, a < b, with a body that assigns        *)
(* neither v nor the bound and does not jump: the run ends with the body   *)
(* fetched b - a times, for v = a, ..., b - 1 in this order, and no FOR    *)
(* record for v is left.                                                   *)
SimpleFor ==
    /\ Len(code_lines) = 4
    /\ Len(SortedProgram[1]) = 6
    /\ SortedProgram[1] = ForLine("i", <<SortedProgram[1][4]>>, <<SortedProgram[1][6]>>)
    /\ SortedProgram[1][4].t = "Number" /\ SortedProgram[1][6].t = "Number"
    /\ SortedProgram[1][4].n < SortedProgram[1][6].n
    /\ SortedProgram[2] \in ForBodies \ {GotoLine(40)}
    /\ SortedProgram[3] = NextLine("i")

ForFrom == SortedProgram[1][4].n
ForTo == SortedProgram[1][6].n

IsBody(idx) == idx = 1
IsBodyOutput(o) == o.line = 20

ForRunsToBound ==
    /\ Len(SelectSeq(trace, IsBody)) = ForTo - ForFrom
    /\ "i" \notin DOMAIN floops
    /\ SortedProgram[2] = PrintLine(<<Var("i")>>) =>
          LET printed == SelectSeq(output, IsBodyOutput) IN
          /\ Len(printed) = ForTo - ForFrom
          /\ \A k \in 1..Len(printed) : printed[k].text = ToString(ForFrom + k - 1)

C4_ForRunsToBound ==
    SimpleFor => (status # "err" /\ (status = "ok" => ForRunsToBound))

\* the same for the programs supplied in ascending order only
C4_ForRunsToBoundWhenAscending ==
    (SimpleFor /\ SuppliedAscending) =>
        (status # "err" /\ (status = "ok" => ForRunsToBound))

----------------------------------------------------------------------------
(* C5: WHILE expr with a Boolean expr, true or false, pushes one record    *)
(* for its line and goes on to the next line, changing nothing else.       *)
IsBool(r) == r.st = "ok" /\ r.v.k = "Bool"

C5_WhilePushesAndFallsThrough ==
    [][(CurIs("While") /\ Dispatch
            /\ IsBool(parse_and_eval_expression(CurTokens, 2, variables))) =>
          /\ wloops' = Append(wloops, [line_no |-> CurNumber, pos |-> 1])
          /\ line_index' = line_index + 1
          /\ status' = IF line_index + 1 = num_lines THEN "ok" ELSE "running"
          /\ UNCHANGED <<variables, floops, output, stdin>>]_vars

\* a WHILE whose condition was false when it was entered, its body fetched
\* right after it
C5_Witness ==
    /\ Len(trace) >= 3
    /\ StmtAt(2) = WhileLine(<<Num(1), Kw("Equals"), Num(2)>>)
    /\ trace[3] = trace[2] + 1
    /\ StmtAt(3) = LetLine("x", <<Var("x"), Kw("Plus"), Num(1)>>)
    /\ Len(wloops) = 1

----------------------------------------------------------------------------
(* The value of an infix expression of literals under the standard         *)
(* reading: the unary minus binds tightest, then * and /, then + and -,    *)
(* then the comparisons; operators of one level group from the left. The   *)
(* operations on values are those of value.rs.                             *)

StdOk(v, i) == [st |-> "ok", v |-> v, i |-> i]
StdErr == [st |-> "err", v |-> VBool(FALSE), i |-> 0]
StdOf(r, i) == IF r.ok THEN StdOk(r.v, i) ELSE StdErr

RECURSIVE StdComparison(_, _), StdComparisonRest(_, _), StdSum(_, _),
          StdSumRest(_, _), StdProduct(_, _), StdProductRest(_, _),
          StdUnary(_, _)

StdClosed(toks, r) ==
    IF r.st = "ok" /\ TokAt(toks, r.i).t = "RParen" THEN StdOk(r.v, r.i + 1)
    ELSE StdErr

StdPrimary(toks, i) ==
    IF TokAt(toks, i).t = "Number" THEN StdOk(VNum(TokAt(toks, i).n), i + 1)
    ELSE IF TokAt(toks, i).t = "LParen" THEN StdClosed(toks, StdComparison(toks, i + 1))
    ELSE StdErr

StdNegated(r) == IF r.st = "ok" THEN StdOf(ValueNeg(r.v), r.i) ELSE StdErr

StdUnary(toks, i) ==
    IF TokAt(toks, i).t = "UMinus" THEN StdNegated(StdUnary(toks, i + 1))
    ELSE StdPrimary(toks, i)

StdApplied(op, l, r) ==
    IF r.st # "ok" THEN StdErr
    ELSE IF is_comparison_operator(op) THEN StdOf(ApplyComparison(op, l.v, r.v), r.i)
    ELSE StdOf(ApplyBinary(op, l.v, r.v), r.i)

StdProductRest(toks, l) ==
    IF l.st = "ok" /\ TokAt(toks, l.i).t \in {"Multiply", "Divide"}
    THEN StdProductRest(toks, StdApplied(TokAt(toks, l.i), l, StdUnary(toks, l.i + 1)))
    ELSE l

StdProduct(toks, i) == StdProductRest(toks, StdUnary(toks, i))

StdSumRest(toks, l) ==
    IF l.st = "ok" /\ TokAt(toks, l.i).t \in {"Plus", "Minus"}
    THEN StdSumRest(toks, StdApplied(TokAt(toks, l.i), l, StdProduct(toks, l.i + 1)))
    ELSE l

StdSum(toks, i) == StdSumRest(toks, StdProduct(toks, i))

StdComparisonRest(toks, l) ==
    IF l.st = "ok" /\ is_comparison_operator(TokAt(toks, l.i))
    THEN StdComparisonRest(toks, StdApplied(TokAt(toks, l.i), l, StdSum(toks, l.i + 1)))
    ELSE l

StdComparison(toks, i) == StdComparisonRest(toks, StdSum(toks, i))

StdWhole(toks, r) == IF r.st = "ok" /\ r.i = Len(toks) + 1 THEN r ELSE StdErr

StdValue(toks) == StdWhole(toks, StdComparison(toks, 1))

\* the expression of 10 LET r = <expression>
LetExpression == SubSeq(SortedProgram[1], 4, Len(SortedProgram[1]))

IsLetOfExpression ==
    /\ Len(code_lines) = 2
    /\ SortedProgram[1] = LetLine("r", LetExpression)
    /\ LetExpression \in Expressions

HasUnaryMinus(toks) == \E k \in 1..Len(toks) : toks[k].t = "UMinus"

\* LET has run and r is bound to this result, or LET failed as this does
LetGave(r) ==
    IF r.st = "ok"
    THEN status # "err" /\ "r" \in DOMAIN variables /\ variables["r"] = r.v
    ELSE status = "err"

----------------------------------------------------------------------------
(* C6: an expression of arithmetic and comparison operators, literals and  *)
(* parentheses gets the value of its standard reading: higher precedence   *)
(* first, equal precedence from the left, as in a - b * c - d being        *)
(* (a - (b * c)) - d.                                                      *)
C6_StandardPrecedence ==
    (IsLetOfExpression /\ ~HasUnaryMinus(LetExpression) /\ trace # <<>>) =>
        LetGave(StdValue(LetExpression))

\* the same for two operators only: a op b op c, (a op b) op c and
\* a op (b op c)
C6_HoldsForTwoOperators ==
    (/\ IsLetOfExpression /\ trace # <<>>
     /\ LetExpression \in TwoOperators \cup Parenthesised) =>
        LetGave(StdValue(LetExpression))

----------------------------------------------------------------------------
(* C7: the unary minus binds tighter than every binary operator, and every *)
(* expression with it gets the value of its standard reading, as in        *)
(* a * -b + c being (a * (-b)) + c.                                        *)
C7_UnaryMinusBindsTightest ==
    (IsLetOfExpression /\ HasUnaryMinus(LetExpression) /\ trace # <<>>) =>
        LetGave(StdValue(LetExpression))

\* the same for a unary minus in front of the first operand only
C7_HoldsForLeadingMinus ==
    (/\ IsLetOfExpression /\ trace # <<>>
     /\ \E a \in Literals, b \in Literals, o \in ChainTokens :
           LetExpression = <<Kw("UMinus"), a, Kw(o), b>>) =>
        LetGave(StdValue(LetExpression))

----------------------------------------------------------------------------
----------------------------------------------------------------------------
(* C9: GOTO n, and IF with a true condition THEN n, with n not a declared  *)
(* line number, end the run with an error at the jumping line, and nothing *)
(* is fetched after an error.                                              *)
C9_UndeclaredTargetFails ==
    [][/\ \A n \in JumpTargets :
             (~Declared(n) /\ Dispatch) =>
                 /\ status' = "err"
                 /\ err'.line = CurNumber
                 /\ err'.msg \in {"Invalid target line for GOTO",
                                  "Invalid target line for IF"}
                 /\ UNCHANGED <<line_index, variables, floops, wloops, output>>
       /\ status = "err" => ~Dispatch]_vars

\* IF with a true condition and an undeclared target ended the run
C9_Witness ==
    /\ status = "err"
    /\ err.msg = "Invalid target line for IF"
    /\ LastKind = "If"
    /\ Len(trace) >= 2

----------------------------------------------------------------------------
(* C10: a GOTO to a declared line changes the program counter only: the    *)
(* bindings, the FOR records and the while-stack stay as they are.         *)
C10_GotoKeepsContext ==
    [][(CurIs("Goto") /\ Dispatch /\ TokAt(CurTokens, 2).t = "Number"
            /\ Declared(TokAt(CurTokens, 2).n)) =>
          /\ status' = "running"
          /\ UNCHANGED <<variables, floops, wloops, output, stdin>>]_vars

\* a GOTO just left the body of a FOR loop whose record is still there
C10_Witness ==
    /\ LastKind = "Goto"
    /\ status = "running"
    /\ "i" \in DOMAIN floops
    /\ "i" \in DOMAIN variables

----------------------------------------------------------------------------
(* C11: a run of evaluate ends with the success message or with an error   *)
(* triple and in no other way, whatever the program: also a program        *)
(* without lines, and a statement whose expression holds a token that is   *)
(* no value, operator or parenthesis and none of THEN, TO, STEP.           *)
C11_EndsOkOrError == status \in {"running", "ok", "err"}

----------------------------------------------------------------------------
(* C12: a + b with one Number and one Text, in either order, parses the    *)
(* Text as a number and gives the Number sum; a Text that does not parse   *)
(* makes the expression fail; Text + Text concatenates; Number + Number    *)
(* adds.                                                                   *)
TextAsNumber(num, r) == IF r.ok THEN StdOk(VNum(num + r.n), 0) ELSE StdErr

PlusValue(a, b) ==
    IF a.t = "Number" /\ b.t = "Number" THEN StdOk(VNum(a.n + b.n), 0)
    ELSE IF a.t = "BString" /\ b.t = "BString" THEN StdOk(VStr(a.s \o b.s), 0)
    ELSE IF a.t = "Number" THEN TextAsNumber(a.n, F64FromStr(b.s))
    ELSE TextAsNumber(b.n, F64FromStr(a.s))

IsLetOfAddition ==
    /\ Len(code_lines) = 2
    /\ SortedProgram[1] = LetLine("r", LetExpression)
    /\ LetExpression \in Additions

C12_PlusCoercesText ==
    (IsLetOfAddition /\ trace # <<>>) =>
        /\ LetGave(PlusValue(LetExpression[1], LetExpression[3]))
        /\ status = "err" => err.msg = "Error in LET expression"

\* "5" + 3 was evaluated and gave the Number 8
C12_Witness ==
    /\ IsLetOfAddition
    /\ LetExpression = <<Str("5"), Kw("Plus"), Num(3)>>
    /\ "r" \in DOMAIN variables
    /\ variables["r"] = VNum(8)

----------------------------------------------------------------------------
(* C13: IF expr THEN n with expr false changes no binding, FOR record or   *)
(* while-stack entry and moves the program counter on by one, whether n is *)
(* a declared line number or not.                                          *)
IsFalseIf(r) ==
    /\ r.st = "ok" /\ r.v = VBool(FALSE)
    /\ TokAt(CurTokens, r.i).t = "Then"
    /\ TokAt(CurTokens, r.i + 1).t = "Number"

C13_FalseIfFallsThrough ==
    [][(CurIs("If") /\ Dispatch
            /\ IsFalseIf(parse_and_eval_expression(CurTokens, 2, variables))) =>
          /\ line_index' = line_index + 1
          /\ status' = IF line_index + 1 = num_lines THEN "ok" ELSE "running"
          /\ UNCHANGED <<variables, floops, wloops, output, stdin>>]_vars

\* IF x = 1 THEN 15 ran with x = 0 and 15 undeclared, and the line after it
\* was fetched
C13_Witness ==
    /\ Len(trace) >= 3
    /\ StmtAt(2) = IfLine(Var("x"), "Equals", Num(1), 15)
    /\ trace[3] = trace[2] + 1
    /\ "x" \in DOMAIN variables /\ variables["x"] = VNum(0)
    /\ status \in {"running", "ok"}

----------------------------------------------------------------------------
(* What NEXT v is about to decide, from the state it is dispatched in.     *)

\* NEXT v is about to be dispatched with a record for v and v a Number
NextReady(v) ==
    /\ CurIs("Next")
    /\ TokAt(CurTokens, 2) = Var(v)
    /\ v \in DOMAIN floops
    /\ v \in DOMAIN variables
    /\ variables[v].k = "Number"

\* the end bound, from the tokens after TO of the FOR line
EndAtNext(v) ==
    parse_and_eval_expression(lineno_to_code[floops[v].line_no],
                              floops[v].pos + 1, variables)

\* the expression after v on the NEXT line
TailAtNext == parse_and_eval_expression(CurTokens, 3, variables)

IsNumber(r) == r.st = "ok" /\ r.v.k = "Number" /\ r.v # NonInt

StepAtNext(v) ==
    IF floops[v].stes THEN TailAtNext.v.n
    ELSE IF floops[v].slide THEN 1 ELSE -1

NextValue(v) == variables[v].n + StepAtNext(v)

\* NEXT v gets as far as its test
NextTests(v) ==
    /\ NextReady(v)
    /\ IsNumber(EndAtNext(v))
    /\ floops[v].stes => IsNumber(TailAtNext)

NextContinues(v) ==
    /\ NextTests(v)
    /\ IF floops[v].slide THEN NextValue(v) < EndAtNext(v).v.n
       ELSE NextValue(v) > EndAtNext(v).v.n

NextExits(v) ==
    /\ NextTests(v)
    /\ ~(IF floops[v].slide THEN NextValue(v) < EndAtNext(v).v.n
         ELSE NextValue(v) > EndAtNext(v).v.n)

----------------------------------------------------------------------------
----------------------------------------------------------------------------
(* What WEND is about to decide: the condition of the WHILE line of the    *)
(* top while-stack record, under the bindings WEND is dispatched with.     *)
HomeTokens == lineno_to_code[Top(wloops).line_no]

CondAtWend ==
    parse_and_eval_expression(SubSeq(HomeTokens, 2, Len(HomeTokens)), 1, variables)

WendFinds(b) ==
    /\ CurIs("Wend")
    /\ wloops # <<>>
    /\ CondAtWend.st = "ok"
    /\ CondAtWend.v = VBool(b)

----------------------------------------------------------------------------
----------------------------------------------------------------------------
(* C16: in a program whose WHILE and WEND lines are properly nested and    *)
(* that holds no GOTO and no IF, the while-stack is, at every line         *)
(* fetched, as deep as the number of WHILE loops around that line, however *)
(* often the loops have run, and empty when the run returns Ok.            *)
StartsWith(k, kind) == SortedProgram[k] # <<>> /\ SortedProgram[k][1].t = kind

\* the WHILE loops open before line k of the program in ascending order
Enclosing(k) ==
    Cardinality({j \in 1..(k - 1) : StartsWith(j, "While")})
        - Cardinality({j \in 1..(k - 1) : StartsWith(j, "Wend")})

WellNested ==
    /\ \E k \in 1..Len(SortedProgram) : StartsWith(k, "While")
    /\ \A k \in 1..Len(SortedProgram) :
          /\ ~StartsWith(k, "Goto") /\ ~StartsWith(k, "If")
          /\ StartsWith(k, "Wend") => Enclosing(k) >= 1
    /\ Enclosing(Len(SortedProgram) + 1) = 0

DepthIsNesting ==
    /\ status = "running" => Len(wloops) = Enclosing(line_index + 1)
    /\ status = "ok" => wloops = <<>>

C16_DepthIsNesting == WellNested => DepthIsNesting

\* the same for the programs supplied in ascending order only
C16_DepthIsNestingWhenAscending ==
    (WellNested /\ SuppliedAscending) => DepthIsNesting

----------------------------------------------------------------------------
(* C17: NEXT v tests against the end-bound expression of the FOR line,     *)
(* the tokens after its TO, evaluated under the bindings NEXT is           *)
(* dispatched with: a bound the body has changed decides with its new      *)
(* value.                                                                  *)
ForTokens(v) == lineno_to_code[floops[v].line_no]

ToIndex(toks) == CHOOSE k \in 1..Len(toks) : toks[k].t = "To"

BoundNow(v) ==
    parse_and_eval_expression(
        SubSeq(ForTokens(v), ToIndex(ForTokens(v)) + 1, Len(ForTokens(v))),
        1, variables)

PassesBoundNow(v) ==
    IF floops[v].slide THEN NextValue(v) < BoundNow(v).v.n
    ELSE NextValue(v) > BoundNow(v).v.n

C17_NextUsesBoundNow ==
    [][\A v \in DOMAIN floops :
          (/\ NextReady(v) /\ Dispatch
           /\ IsNumber(BoundNow(v))
           /\ floops[v].stes => IsNumber(TailAtNext)) =>
              /\ status' \in {"running", "ok"}
              /\ PassesBoundNow(v) =>
                    (v \in DOMAIN floops' /\ variables'[v] = VNum(NextValue(v)))
              /\ ~PassesBoundNow(v) => v \notin DOMAIN floops']_vars

\* FOR i = 0 TO n was entered with n = 2, the body set n to 0, and the
\* first NEXT i ended the loop
C17_Witness ==
    /\ Len(trace) = 4
    /\ StmtAt(1) = LetLine("n", <<Num(2)>>)
    /\ StmtAt(2) = ForLine("i", <<Num(0)>>, <<Var("n")>>)
    /\ StmtAt(3) = LetLine("n", <<Num(0)>>)
    /\ StmtAt(4) = NextLine("i")
    /\ "i" \notin DOMAIN floops
    /\ variables["i"] = VNum(0)

----------------------------------------------------------------------------
(* C18: FOR records whether its line carries a STEP clause. With one, the  *)
(* increment of every NEXT v is the value of the expression after v on the *)
(* NEXT line under the current bindings, never that of the STEP expression *)
(* of the FOR line, and a NEXT v with nothing after v ends the run with an *)
(* error. Without one, the increment is +1 for an ascending loop and -1    *)
(* for a descending one.                                                   *)
HasStep(toks) == \E k \in 1..Len(toks) : toks[k].t = "Step"

Increment(v) ==
    IF HasStep(ForTokens(v)) THEN TailAtNext.v.n
    ELSE IF floops[v].slide THEN 1 ELSE -1

PassesWith(v, next) ==
    IF floops[v].slide THEN next < EndAtNext(v).v.n ELSE next > EndAtNext(v).v.n

C18_IncrementOfNextLine ==
    [][/\ (CurIs("For") /\ Dispatch /\ status' \in {"running", "ok"}) =>
             floops'[TokAt(CurTokens, 2).s].stes = HasStep(CurTokens)
       /\ \A v \in DOMAIN floops :
             (NextReady(v) /\ Dispatch /\ IsNumber(EndAtNext(v))) =>
                 /\ (HasStep(ForTokens(v)) /\ TokAt(CurTokens, 3).t = "None") =>
                       /\ status' = "err"
                       /\ err'.line = CurNumber
                       /\ err'.msg = "Cannot parse step for FOR"
                 /\ (HasStep(ForTokens(v)) => IsNumber(TailAtNext)) =>
                       /\ status' \in {"running", "ok"}
                       /\ PassesWith(v, variables[v].n + Increment(v)) =>
                             /\ v \in DOMAIN floops'
                             /\ variables'[v] = VNum(variables[v].n + Increment(v))
                       /\ ~PassesWith(v, variables[v].n + Increment(v)) =>
                             v \notin DOMAIN floops']_vars

\* FOR i = 0 TO n STEP 2 with n = 3 and NEXT i 1: the first NEXT moved i
\* from 0 to 1
C18_Witness ==
    /\ Len(trace) = 4
    /\ StmtAt(1) = LetLine("n", <<Num(3)>>)
    /\ StmtAt(2) = ForStepLine("i", <<Num(0)>>, <<Var("n")>>, <<Num(2)>>)
    /\ StmtAt(3) = RemLine
    /\ StmtAt(4) = NextStepLine("i", <<Num(1)>>)
    /\ "i" \in DOMAIN floops
    /\ variables["i"] = VNum(1)

----------------------------------------------------------------------------
(* C19: FOR records the direction of its loop once, ascending iff start <  *)
(* end as they are at entry; no other statement changes it; NEXT continues *)
(* iff next < end in a loop recorded ascending and iff next > end in one   *)
(* recorded descending, where end is the bound as it is now.               *)
StartAtFor == parse_and_eval_expression(CurTokens, 4, variables)

C19_DirectionFixedAtEntry ==
    [][/\ (CurIs("For") /\ Dispatch /\ status' \in {"running", "ok"}) =>
             floops'[TokAt(CurTokens, 2).s].slide =
                 (StartAtFor.v.n <
                    parse_and_eval_expression(
                        SubSeq(CurTokens, ToIndex(CurTokens) + 1, Len(CurTokens)),
                        1, variables').v.n)
       /\ \A v \in DOMAIN floops :
             /\ (v \in DOMAIN floops' /\ ~CurIs("For")) =>
                   floops'[v].slide = floops[v].slide
             /\ (NextTests(v) /\ Dispatch) =>
                   (v \in DOMAIN floops' <=> PassesWith(v, NextValue(v)))]_vars

\* FOR i = 1 TO n was entered ascending with n = 2; the body set n to 0,
\* below i; NEXT i tested 2 < 0 and ended the loop
C19_Witness ==
    /\ Len(trace) = 4
    /\ StmtAt(1) = LetLine("n", <<Num(2)>>)
    /\ StmtAt(2) = ForLine("i", <<Num(1)>>, <<Var("n")>>)
    /\ StmtAt(3) = LetLine("n", <<Num(0)>>)
    /\ StmtAt(4) = NextLine("i")
    /\ "i" \notin DOMAIN floops
    /\ variables["i"] = VNum(1)
    /\ status = "running"

----------------------------------------------------------------------------
(* C20: when NEXT v does not continue, the FOR record of v is removed and  *)
(* nothing else changes: v and every other binding keep their values,      *)
(* every other FOR record and the while-stack stay, and the program        *)
(* counter moves on by one.                                                *)
C20_NextExitRemovesRecordOnly ==
    [][\A v \in DOMAIN floops :
          (NextExits(v) /\ Dispatch) =>
              /\ floops' = Remove(floops, v)
              /\ line_index' = line_index + 1
              /\ status' = IF line_index + 1 = num_lines THEN "ok" ELSE "running"
              /\ UNCHANGED <<variables, wloops, output, stdin>>]_vars

\* lines in ascending order: FOR i = 0 TO 2 ran its body for 0 and 1, the
\* second NEXT i ended the loop, and i is still 1
C20_Witness ==
    /\ SuppliedAscending
    /\ Len(trace) = 5
    /\ StmtAt(1) = ForLine("i", <<Num(0)>>, <<Num(2)>>)
    /\ StmtAt(5) = NextLine("i")
    /\ "i" \notin DOMAIN floops
    /\ variables["i"] = VNum(1)
    /\ status = "running"

----------------------------------------------------------------------------
(* C21: there is one FOR record per variable name at most. A FOR v that    *)
(* returns Ok leaves as the record of v its own line, the position of its  *)
(* TO, the direction start < end and whether it carries a STEP clause,     *)
(* whatever record v had before; the records of the other variables stay   *)
(* as they were.                                                           *)
EndAtFor ==
    parse_and_eval_expression(
        SubSeq(CurTokens, ToIndex(CurTokens) + 1, Len(CurTokens)), 1,
        Insert(variables, TokAt(CurTokens, 2).s, StartAtFor.v))

RecordOfFor ==
    [line_no |-> CurNumber,
     pos     |-> ToIndex(CurTokens),
     slide   |-> StartAtFor.v.n < EndAtFor.v.n,
     stes    |-> HasStep(CurTokens)]

C21_ForReplacesRecord ==
    [][(CurIs("For") /\ Dispatch /\ status' \in {"running", "ok"}) =>
          /\ DOMAIN floops' = DOMAIN floops \cup {TokAt(CurTokens, 2).s}
          /\ floops'[TokAt(CurTokens, 2).s] = RecordOfFor
          /\ \A w \in DOMAIN floops \ {TokAt(CurTokens, 2).s} :
                floops'[w] = floops[w]]_vars

\* FOR i = 0 TO 2 at line 10 left an ascending record; FOR i = 3 TO 0 at
\* line 20 put a descending one of line 20 in its place
C21_Witness ==
    /\ Len(trace) = 2
    /\ StmtAt(1) = ForLine("i", <<Num(0)>>, <<Num(2)>>)
    /\ StmtAt(2) = ForLine("i", <<Num(3)>>, <<Num(0)>>)
    /\ DOMAIN floops = {"i"}
    /\ floops["i"].line_no = 20
    /\ ~floops["i"].slide

\* FOR j left its record; the FOR i STEP after it added one for i and the
\* record of j is as before
C21_OtherRecordKept ==
    /\ Len(trace) = 2
    /\ StmtAt(1) = ForLine("j", <<Num(0)>>, <<Num(2)>>)
    /\ StmtAt(2) = ForStepLine("i", <<Num(1)>>, <<Num(2)>>, <<Num(1)>>)
    /\ DOMAIN floops = {"i", "j"}
    /\ floops["j"].line_no = 10
    /\ floops["i"].stes

----------------------------------------------------------------------------
C22_StaleWendResumesLoopWhenAscending ==
    [][/\ ((CurIs("Goto") \/ CurIs("If")) /\ Dispatch /\ status' = "running") =>
             wloops' = wloops
       /\ (WendFinds(TRUE) /\ Dispatch /\ SuppliedAscending) =>
             /\ wloops' = wloops
             /\ status' = "running"
             /\ line_numbers[line_index'] = Top(wloops).line_no
       /\ (WendFinds(FALSE) /\ Dispatch) =>
             wloops' = Pop(wloops)]_vars

\* lines in ascending order: GOTO 50 left the loop of line 20, the WEND of
\* line 60, outside of it, found x < 2 true and the run went on at line 30
C22_StaleWendTaken ==
    /\ SuppliedAscending
    /\ Len(trace) = 6
    /\ StmtAt(3) = GotoLine(50)
    /\ Fetched[5] = 60 /\ StmtAt(5) = WendLine
    /\ Fetched[6] = 30
    /\ Len(wloops) = 1 /\ wloops[1].line_no = 20

----------------------------------------------------------------------------
(* C23: NEXT v dispatched without a FOR record for v, and WEND dispatched  *)
(* with the while-stack empty, end the run with an error at that line; no  *)
(* binding changes, no record changes and the program counter stays. This  *)
(* is so too when the record of v was removed by a NEXT v that ended the   *)
(* loop.                                                                   *)
NextWithoutRecord ==
    /\ CurIs("Next")
    /\ TokAt(CurTokens, 2).t = "Variable"
    /\ TokAt(CurTokens, 2).s \notin DOMAIN floops

WendWithoutRecord == CurIs("Wend") /\ wloops = <<>>

C23_LoopEndWithoutRecordFails ==
    [][/\ (NextWithoutRecord /\ Dispatch) =>
             /\ status' = "err"
             /\ err'.line = CurNumber
             /\ err'.msg = "Cannot get FOR signature from hashmap"
             /\ UNCHANGED <<variables, floops, wloops, line_index, output>>
       /\ (WendWithoutRecord /\ Dispatch) =>
             /\ status' = "err"
             /\ err'.line = CurNumber
             /\ err'.msg = "Cannot find last WHILE loop"
             /\ UNCHANGED <<variables, floops, wloops, line_index, output>>]_vars

\* FOR i = 1 TO 2 inside FOR i = 0 TO 2: the NEXT i of line 40 ended the
\* inner loop and removed the record, the NEXT i of line 50 failed
C23_Witness ==
    /\ SuppliedAscending
    /\ Len(trace) = 5
    /\ StmtAt(2) = ForLine("i", <<Num(1)>>, <<Num(2)>>)
    /\ StmtAt(4) = NextLine("i") /\ StmtAt(5) = NextLine("i")
    /\ status = "err"
    /\ err.line = 50
    /\ err.msg = "Cannot get FOR signature from hashmap"
    /\ variables["i"] = VNum(1)

\* a WEND as the only line failed
C23_WendAlone ==
    /\ code_lines = Numbered(<<WendLine>>)
    /\ status = "err"
    /\ err.line = 10
    /\ err.msg = "Cannot find last WHILE loop"

----------------------------------------------------------------------------
(* C24: an operator that finds too few operands on the stack, a unary one  *)
(* none, a comparison or a binary arithmetic one fewer than two, makes the *)
(* expression fail: LET r = a op, LET r = op a and LET r = op end with the *)
(* error of the LET expression and r is not bound.                         *)
IsLetOfMissingOperand ==
    /\ Len(code_lines) = 2
    /\ SortedProgram[1] = LetLine("r", LetExpression)
    /\ LetExpression \in MissingOperands

LetFailed ==
    /\ status = "err"
    /\ err.line = 10
    /\ err.msg = "Error in LET expression"
    /\ "r" \notin DOMAIN variables

C24_MissingOperandFails ==
    (IsLetOfMissingOperand /\ trace # <<>>) => LetFailed

HasArithmetic(toks) == \E k \in 1..Len(toks) : toks[k].t \in ArithmeticTokens

\* the same for the unary and the comparison operators only
C24_HoldsForUnaryAndComparison ==
    (IsLetOfMissingOperand /\ ~HasArithmetic(LetExpression) /\ trace # <<>>) =>
        LetFailed

\* LET r = 1 < was dispatched and failed
C24_ComparisonFailed ==
    /\ IsLetOfMissingOperand
    /\ LetExpression = <<Num(1), Kw("LessThan")>>
    /\ LetFailed

----------------------------------------------------------------------------
(* C25: LET v = expr whose expression has a value binds v to it, whatever  *)
(* v was bound to before, and nothing else changes: every other binding,   *)
(* the FOR records, the while-stack and the output stay and the program    *)
(* counter moves on by one. A LET whose expression has no value ends the   *)
(* run and leaves every binding, that of v too, as it was.                 *)
IsLet ==
    /\ CurIs("Let")
    /\ TokAt(CurTokens, 2).t = "Variable"
    /\ TokAt(CurTokens, 3).t = "Equals"

ValueAtLet == parse_and_eval_expression(CurTokens, 4, variables)

C25_LetBindsOnlyItsVariable ==
    [][(IsLet /\ Dispatch) =>
          /\ ValueAtLet.st = "ok" =>
                /\ status' = IF line_index + 1 = num_lines THEN "ok" ELSE "running"
                /\ line_index' = line_index + 1
                /\ DOMAIN variables' = DOMAIN variables \cup {TokAt(CurTokens, 2).s}
                /\ variables'[TokAt(CurTokens, 2).s] = ValueAtLet.v
                /\ \A w \in DOMAIN variables \ {TokAt(CurTokens, 2).s} :
                      variables'[w] = variables[w]
                /\ UNCHANGED <<floops, wloops, output, stdin>>
          /\ ValueAtLet.st # "ok" =>
                /\ status' \notin {"running", "ok"}
                /\ UNCHANGED <<variables, floops, wloops, output>>
          /\ ValueAtLet.st = "err" =>
                /\ status' = "err"
                /\ err'.line = CurNumber]_vars

\* x was bound to the Text abc and LET x = 1 = 1 bound it to the Boolean
\* true
C25_Witness ==
    /\ Len(trace) = 2
    /\ StmtAt(1) = LetLine("x", <<Str("abc")>>)
    /\ StmtAt(2) = LetLine("x", <<Num(1), Kw("Equals"), Num(1)>>)
    /\ variables["x"] = VBool(TRUE)
    /\ status = "running"

\* a LET in the body of a FOR loop bound n and the record of i is there
C25_LetInsideLoop ==
    /\ Len(trace) = 3
    /\ StmtAt(2) = ForLine("i", <<Num(0)>>, <<Var("n")>>)
    /\ StmtAt(3) = LetLine("n", <<Num(0)>>)
    /\ variables["n"] = VNum(0)
    /\ "i" \in DOMAIN floops

\* x was bound to the Text abc, LET x = x + 1 failed and x is as it was
C25_LetFailed ==
    /\ Len(trace) = 2
    /\ StmtAt(1) = LetLine("x", <<Str("abc")>>)
    /\ StmtAt(2) = LetLine("x", <<Var("x"), Kw("Plus"), Num(1)>>)
    /\ status = "err"
    /\ err.line = 20
    /\ variables["x"] = VStr("abc")

----------------------------------------------------------------------------
(* C26: over Numbers, Texts and Booleans a <= b is the negation of a > b   *)
(* and a >= b the negation of a < b, and each fails exactly when the       *)
(* comparison it negates fails. Two Booleans: a > b is true iff a is true  *)
(* and b false, and a < b is the value of a = b, so that true >= true is   *)
(* false and false < false is true. A Boolean beside a Number or a Text    *)
(* fails, a Text beside a Number is compared as the number it reads as.    *)
IsLetOfComparison ==
    /\ Len(code_lines) = 2
    /\ SortedProgram[1] = LetLine("r", LetExpression)
    /\ LetExpression \in Comparisons

\* where the comparison operator stands
OperatorIndex == IF LetExpression[1].t = "LParen" THEN 6 ELSE 2

OperandValue(toks) ==
    IF toks[1].t = "Number" THEN VNum(toks[1].n)
    ELSE IF toks[1].t = "BString" THEN VStr(toks[1].s)
    ELSE VBool(toks[2].n = toks[4].n)

LeftOperand == OperandValue(SubSeq(LetExpression, 1, OperatorIndex - 1))
RightOperand ==
    OperandValue(SubSeq(LetExpression, OperatorIndex + 1, Len(LetExpression)))

\* the number a Number or a Text stands for
NumberOf(v) == IF v.k = "Number" THEN [ok |-> TRUE, n |-> v.n] ELSE F64FromStr(v.s)

Comparable(a, b) ==
    /\ a.k # "Bool" /\ b.k # "Bool"
    /\ NumberOf(a).ok /\ NumberOf(b).ok

Greater(a, b) ==
    IF a.k = "Bool" /\ b.k = "Bool" THEN StdOk(VBool(a.b /\ ~b.b), 0)
    ELSE IF a.k = "String" /\ b.k = "String"
        THEN StdOk(VBool(TextRank(a.s) > TextRank(b.s)), 0)
    ELSE IF Comparable(a, b) THEN StdOk(VBool(NumberOf(a).n > NumberOf(b).n), 0)
    ELSE StdErr

Less(a, b) ==
    IF a.k = "Bool" /\ b.k = "Bool" THEN StdOk(VBool(a.b = b.b), 0)
    ELSE IF a.k = "String" /\ b.k = "String"
        THEN StdOk(VBool(TextRank(a.s) < TextRank(b.s)), 0)
    ELSE IF Comparable(a, b) THEN StdOk(VBool(NumberOf(a).n < NumberOf(b).n), 0)
    ELSE StdErr

Negated(r) == IF r.st = "ok" THEN StdOk(VBool(~r.v.b), 0) ELSE StdErr

ComparisonValue(o, a, b) ==
    CASE o = "GreaterThan" -> Greater(a, b)
      [] o = "LessThan" -> Less(a, b)
      [] o = "LessThanEqual" -> Negated(Greater(a, b))
      [] o = "GreaterThanEqual" -> Negated(Less(a, b))

C26_OrEqualNegatesOpposite ==
    (IsLetOfComparison /\ trace # <<>>) =>
        LetGave(ComparisonValue(LetExpression[OperatorIndex].t,
                                LeftOperand, RightOperand))

\* (1 = 1) >= (1 = 1) was evaluated and gave false
C26_Witness ==
    /\ IsLetOfComparison
    /\ LeftOperand = VBool(TRUE) /\ RightOperand = VBool(TRUE)
    /\ LetExpression[OperatorIndex].t = "GreaterThanEqual"
    /\ "r" \in DOMAIN variables
    /\ variables["r"] = VBool(FALSE)

\* "abc" <= 1 was evaluated and failed
C26_MixedFailed ==
    /\ IsLetOfComparison
    /\ LetExpression = <<Str("abc"), Kw("LessThanEqual"), Num(1)>>
    /\ status = "err"

----------------------------------------------------------------------------
(* C27: FOR tests nothing at entry. A FOR v = start TO end that returns Ok *)
(* binds v to start and the run goes on at the line after the FOR line,    *)
(* whatever start and end are, so the body is run once at least. With      *)
(* start = end the loop is recorded descending, and the NEXT v of a loop   *)
(* without STEP whose body left v and the bound alone ends it: the body    *)
(* was run once exactly.                                                   *)
OneValueFor ==
    /\ Len(code_lines) = 4
    /\ Len(SortedProgram[1]) = 6
    /\ SortedProgram[1] = ForLine("i", <<SortedProgram[1][4]>>, <<SortedProgram[1][6]>>)
    /\ SortedProgram[1][4].t = "Number" /\ SortedProgram[1][6].t = "Number"
    /\ SortedProgram[1][4].n = SortedProgram[1][6].n
    /\ SortedProgram[2] \in ForBodies \ {GotoLine(40)}
    /\ SortedProgram[3] = NextLine("i")

BodyRuns == Len(SelectSeq(trace, IsBody))

C27_ForHasNoEntryTest ==
    /\ [][/\ (CurIs("For") /\ Dispatch /\ status' \in {"running", "ok"}) =>
                /\ line_index' = line_index + 1
                /\ line_has_goto' = FALSE
                /\ variables'[TokAt(CurTokens, 2).s] = StartAtFor.v
                /\ status' = IF line_index + 1 = num_lines THEN "ok" ELSE "running"
                /\ StartAtFor.v = EndAtFor.v =>
                      ~floops'[TokAt(CurTokens, 2).s].slide
          /\ \A v \in DOMAIN floops :
                (/\ NextTests(v) /\ Dispatch
                 /\ ~floops[v].slide /\ ~floops[v].stes
                 /\ variables[v] = EndAtNext(v).v) =>
                    /\ v \notin DOMAIN floops'
                    /\ line_index' = line_index + 1
                    /\ variables' = variables]_vars
    /\ [](OneValueFor =>
             /\ status \in {"running", "ok"}
             /\ BodyRuns <= 1
             /\ Len(trace) >= 2 => BodyRuns = 1
             /\ status = "ok" => (variables["i"] = VNum(ForFrom)
                                  /\ "i" \notin DOMAIN floops))

\* lines supplied in descending order: FOR i = 2 TO 2 / PRINT i / NEXT i /
\* PRINT i ran to its end and the body printed 2 once
C27_Witness ==
    /\ OneValueFor
    /\ ForFrom = 2
    /\ code_lines[1].line_number = 40
    /\ status = "ok"
    /\ BodyRuns = 1
    /\ [k \in 1..Len(output) |-> output[k].line] = <<20, 40>>
    /\ output[1].text = "2"

----------------------------------------------------------------------------
(* C28: FOR v inside FOR v, each with its NEXT v. While the inner loop     *)
(* runs the one record of v is that of the inner FOR line; the inner NEXT  *)
(* v that ends the inner loop removes it, and the NEXT v of the outer loop *)
(* then finds no record: the run ends with an error at that line and the   *)
(* outer loop is not continued.                                            *)
SameVarNested ==
    /\ Len(code_lines) = 5
    /\ SortedProgram[1] = ForLine("i", <<Num(0)>>, <<Num(2)>>)
    /\ Len(SortedProgram[2]) = 6
    /\ SortedProgram[2] = ForLine("i", <<SortedProgram[2][4]>>, <<SortedProgram[2][6]>>)
    /\ SortedProgram[4] = NextLine("i")
    /\ SortedProgram[5] = NextLine("i")

OuterNextFailed ==
    /\ err.line = 50
    /\ err.msg = "Cannot get FOR signature from hashmap"
    /\ "i" \notin DOMAIN floops
    /\ Fetched[Len(trace) - 1] = 40

SameVariableNestingFails ==
    /\ status \in {"running", "err"}
    /\ status = "err" => OuterNextFailed
    /\ (Len(trace) >= 2 /\ "i" \in DOMAIN floops) => floops["i"].line_no = 20
    /\ (status = "running" /\ CurNumber = 50) => "i" \notin DOMAIN floops

C28_SameVariableNestingFails == SameVarNested => SameVariableNestingFails

\* the same for the programs supplied in ascending order only
C28_SameVariableNestingFailsWhenAscending ==
    (SameVarNested /\ SuppliedAscending) => SameVariableNestingFails

\* lines in ascending order: the inner FOR i = 0 TO 2 ran its body twice,
\* its NEXT i ended it, and the outer NEXT i failed
C28_OuterNextFailed ==
    /\ SameVarNested /\ SuppliedAscending
    /\ SortedProgram[2] = ForLine("i", <<Num(0)>>, <<Num(2)>>)
    /\ Len(trace) = 7
    /\ status = "err"
    /\ OuterNextFailed
    /\ Len(output) = 2

----------------------------------------------------------------------------
(* C29: in a program of one line at least, with line numbers that differ,  *)
(* the program counter a line is fetched with is an index of a line,       *)
(* 0 <= line_index < num_lines, whatever was dispatched before: GOTO, a    *)
(* true IF, a NEXT or a WEND that continues its loop. A NEXT or a WEND     *)
(* that continues a loop whose home line has the last index ends the run   *)
(* with Ok; nothing is fetched beyond the last line.                       *)
CounterInRange == line_index \in 0..(num_lines - 1)

C29_CounterInRange ==
    /\ []((code_lines # <<>> /\ status = "running") => CounterInRange)
    /\ [][/\ \A v \in DOMAIN floops :
                (/\ NextContinues(v) /\ Dispatch
                 /\ line_map[floops[v].line_no] + 1 = num_lines) =>
                    status' = "ok"
          /\ (WendFinds(TRUE) /\ Dispatch
                 /\ line_map[Top(wloops).line_no] + 1 = num_lines) =>
                status' = "ok"
          /\ (Dispatch /\ status' = "running") =>
                line_index' \in 0..(num_lines - 1)]_vars

\* lines supplied in descending order, the FOR line last: the NEXT i that
\* continued the loop of FOR i = 0 TO 2 ended the run with Ok
C29_Witness ==
    /\ Len(code_lines) = 4
    /\ code_lines[4].tokens = ForLine("i", <<Num(0)>>, <<Num(2)>>)
    /\ Len(trace) = 3
    /\ StmtAt(3) = NextLine("i")
    /\ "i" \in DOMAIN floops
    /\ variables["i"] = VNum(1)
    /\ line_index = num_lines
    /\ status = "ok"

\* the same with a WEND that found its condition true, the WHILE line
\* supplied last
C29_WendEndedRun ==
    /\ LastKind = "Wend"
    /\ Len(trace) = 3
    /\ wloops # <<>>
    /\ line_map[Top(wloops).line_no] + 1 = num_lines
    /\ line_index = num_lines
    /\ status = "ok"

====
